---------------------------- MODULE Spec2Model ----------------------------
(***************************************************************************)
(* A model of the rockyou2024 indexing and search engine:                  *)
(*   - the key derivation iterator IndexOf (src/parse/models/index_of.rs), *)
(*   - the write side IndexFile / IndexCollection (src/parse/models),      *)
(*   - the search side LinesScanner / SearchStyle (src/parse/search).      *)
(*                                                                         *)
(* Text is modelled at the byte level: a byte string is a sequence of      *)
(* integers 0..255, a Rust String / char sequence is a sequence of Unicode *)
(* scalar values.  Conversions between the two (from_utf8_lossy, as_bytes) *)
(* are computed, never taken as the identity.                              *)
(***************************************************************************)
EXTENDS Integers, Sequences, FiniteSets, TLC

VARIABLES
    \* ---- IndexOf iterator (SpecKeys)
    genLength,   \* the const generic LENGTH of the iterator under test
    genDepth,    \* the const generic DEPTH of the iterator under test
    input,       \* the bytes handed to indices_of
    indexOf,     \* the IndexOf struct: [item, index, matches, seen]
    keys,        \* the keys next() has returned so far, in order
    ended,       \* TRUE once next() has returned None
    \* ---- IndexCollection / IndexFile (Spec)
    dedup,       \* whether the crate was built with feature "deduplicate"
    indices,     \* IndexCollection.indices: key -> IndexFile [buffer, seen]
    readers,     \* the threads holding the read lock of indices
    disk,        \* the index directory: key -> bytes of subset_<key>.csv
    alive,       \* the collection's life: "open", "dropping", "unwinding" (the
                 \* drop after an Err of post_process), "dropped", "panicked"
    th,          \* per thread: where it stands in IndexCollection::add
    added,       \* history: the lines add was called with, in call order
    results,     \* history: per call of add, None while it runs, then Ok or Err
    returned,    \* history: per call and key, what the closure of add's
                 \* try_for_each came to: "true", "false" or "Err" as returned
                 \* by IndexFile::add, "NewErr" when IndexFile::new failed
    faults,      \* history: what the file system did that was not a full write
    \* ---- search (Spec, SpecSearch)
    query,       \* the query of the searches made, <<>> before the first
    scanned,     \* per style: what IndexFile::find_lines_containing yielded
    found,       \* per style: what IndexCollection::find_lines_containing returned
    \* ---- FixedMemoryReader (SpecReader)
    ML,                 \* the const generic ML (MAX_SENTENCE_LENGTH) of the reader
    source,             \* the bytes of the input the reader was built on
    fixedMemoryReader,  \* the struct: [inner, chunk_size, overflow, overflow_pointer],
                        \* inner being what the BufReader has not handed out yet
    taken,              \* history: per call of take_until, what it came to
    yielded,            \* what the last IterFixedMemoryReader::next came to:
                        \* [kind, vec], kind "Some", "None" or "Panic", and
                        \* "Idle" before the first call
    \* ---- index_key_path (SpecPaths)
    indexKey,     \* the key handed to path_for_key, or the file name under test
    indexDir,     \* the directory handed to path_for_key: [path, is_dir]
    indexPath,    \* what path_for_key returned (or the path under test), None before
    extractedKey, \* what key_for_path returned for indexPath, None before the call
    \* ---- process_chunk of the indexer (SpecIndex)
    processChunk, \* the call of process_chunk: [chunk, pos, warned, result],
                  \* pos being where the split of the chunk has come to
    \* ---- parse-ffi (SpecFfi)
    ffi,          \* the call of find_lines_in_index_collection: its three
                  \* pointers, and once it is over which of them were
                  \* dereferenced, whether the search ran and what came back
    \* ---- IndexCollection::find_lines_containing (SpecFind)
    lru,              \* whether the crate was built with the result cache
    cache,            \* IndexCollection.cache: <<[key, value]>>, most recent first
    max_num_threads,  \* what rayon::max_num_threads() returns
    unreadable,       \* the keys of the shard files that cannot be opened
    searches,         \* history: per call of find_lines_containing its query,
                      \* style, chunks of shards and what it returned
    \* ---- one IndexFile (SpecFile)
    fileOps,          \* history: the calls made on the IndexFile, each with its
                      \* argument and what it returned
    \* ---- the transformed reader of a search (SpecStream)
    stream            \* the reader made by transform_reader: [style, inner, reads],
                      \* inner being what the file has not handed out yet and
                      \* reads the history of the calls of read

keyVars == <<genLength, genDepth, input, indexOf, keys, ended>>
writeVars == <<dedup, indices, readers, disk, alive, th, added, results, returned, faults>>
searchVars == <<query, scanned, found>>
readerVars == <<ML, source, fixedMemoryReader, taken, yielded>>
pathVars == <<indexKey, indexDir, indexPath, extractedKey>>
chunkVars == <<processChunk>>
ffiVars == <<ffi>>
findVars == <<lru, cache, max_num_threads, unreadable, searches>>
fileVars == <<fileOps>>
streamVars == <<stream>>
vars == <<keyVars, writeVars, searchVars, readerVars, pathVars, chunkVars, ffiVars, findVars, fileVars,
          streamVars>>

None == "None"

\* SearchStyle (search/models/search_style.rs)
Styles == {"Strict", "CaseInsensitive", "Fuzzy"}

\* The values the variables of one specification hold while another runs.
KeysIdle ==
    /\ genLength = 0
    /\ genDepth = 0
    /\ input = <<>>
    /\ indexOf = <<>>
    /\ keys = <<>>
    /\ ended = TRUE

WriterIdle ==
    /\ dedup = FALSE
    /\ indices = <<>>
    /\ readers = {}
    /\ disk = <<>>
    /\ alive = "dropped"
    /\ th = <<>>
    /\ added = <<>>
    /\ results = <<>>
    /\ returned = {}
    /\ faults = [errors |-> 0, short |-> 0]

SearchIdle ==
    /\ query = <<>>
    /\ scanned = [s \in Styles |-> [state |-> "none", key |-> <<>>, items |-> <<>>]]
    /\ found = [s \in Styles |-> [state |-> "none", lines |-> {}]]

ReaderIdle ==
    /\ ML = 0
    /\ source = <<>>
    /\ fixedMemoryReader = <<>>
    /\ taken = <<>>
    /\ yielded = [kind |-> "Idle", vec |-> <<>>]

PathsIdle ==
    /\ indexKey = <<>>
    /\ indexDir = <<>>
    /\ indexPath = <<>>
    /\ extractedKey = <<>>

ChunkIdle == processChunk = <<>>

FfiIdle == ffi = <<>>

FindIdle ==
    /\ lru = FALSE
    /\ cache = <<>>
    /\ max_num_threads = 0
    /\ unreadable = {}
    /\ searches = <<>>

FileIdle == fileOps = <<>>

StreamIdle == stream = <<>>

(***************************************************************************)
(* Generic sequence helpers.                                               *)
(***************************************************************************)
RECURSIVE Flatten(_)
Flatten(ss) == IF ss = <<>> THEN <<>> ELSE Head(ss) \o Flatten(Tail(ss))

RECURSIVE SeqMap(_, _)
SeqMap(F(_), s) == IF s = <<>> THEN <<>> ELSE <<F(Head(s))>> \o SeqMap(F, Tail(s))

Range(s) == {s[i] : i \in 1..Len(s)}

\* s[from..to) with 0-based offsets, as a Rust slice
Slice(s, from, to) == SubSeq(s, from + 1, to)

Min(a, b) == IF a < b THEN a ELSE b
Max(a, b) == IF a > b THEN a ELSE b

\* All sequences over S of length lo..hi
SeqsOf(S, lo, hi) == UNION {[1..n -> S] : n \in lo..hi}

(***************************************************************************)
(* UTF-8.  String::from_utf8_lossy decodes the longest valid prefix of     *)
(* each character and replaces every maximal invalid part by U+FFFD.       *)
(***************************************************************************)
IsCont(b) == b >= 128 /\ b <= 191

\* The range the second byte of a sequence led by b0 must lie in.
SecondOk(b0, b1) ==
    CASE b0 = 224 -> b1 >= 160 /\ b1 <= 191
      [] b0 = 237 -> b1 >= 128 /\ b1 <= 159
      [] b0 = 240 -> b1 >= 144 /\ b1 <= 191
      [] b0 = 244 -> b1 >= 128 /\ b1 <= 143
      [] OTHER    -> IsCont(b1)

\* Expected length of the sequence led by b0; 0 for a byte that leads nothing.
Utf8Width(b0) ==
    CASE b0 <= 127               -> 1
      [] b0 >= 194 /\ b0 <= 223  -> 2
      [] b0 >= 224 /\ b0 <= 239  -> 3
      [] b0 >= 240 /\ b0 <= 244  -> 4
      [] OTHER                   -> 0

\* Decode one step at the head of bs: [char, used].
Utf8Step(bs) ==
    LET b0 == bs[1]
        w  == Utf8Width(b0)
        n  == Len(bs)
    IN  CASE w = 1 -> [char |-> b0, used |-> 1]
          [] w = 0 -> [char |-> 65533, used |-> 1]
          [] w >= 2 /\ (n < 2 \/ ~SecondOk(b0, bs[2])) -> [char |-> 65533, used |-> 1]
          [] w = 2 -> [char |-> (b0 - 192) * 64 + (bs[2] - 128), used |-> 2]
          [] w >= 3 /\ (n < 3 \/ ~IsCont(bs[3])) -> [char |-> 65533, used |-> 2]
          [] w = 3 -> [char |-> (b0 - 224) * 4096 + (bs[2] - 128) * 64 + (bs[3] - 128),
                       used |-> 3]
          [] w = 4 /\ (n < 4 \/ ~IsCont(bs[4])) -> [char |-> 65533, used |-> 3]
          [] OTHER -> [char |-> (b0 - 240) * 262144 + (bs[2] - 128) * 4096
                                + (bs[3] - 128) * 64 + (bs[4] - 128),
                       used |-> 4]

RECURSIVE FromUtf8Lossy(_)
FromUtf8Lossy(bs) ==
    IF bs = <<>> THEN <<>>
    ELSE LET st == Utf8Step(bs)
         IN  <<st.char>> \o FromUtf8Lossy(SubSeq(bs, st.used + 1, Len(bs)))

\* TRUE iff bs is valid UTF-8 (String::from_utf8 succeeds).
RECURSIVE IsUtf8(_)
IsUtf8(bs) ==
    IF bs = <<>> THEN TRUE
    ELSE LET st == Utf8Step(bs)
         IN  /\ st.used = Utf8Width(bs[1])
             /\ IsUtf8(SubSeq(bs, st.used + 1, Len(bs)))

\* char::encode_utf8
EncodeChar(c) ==
    CASE c < 128     -> <<c>>
      [] c < 2048    -> <<192 + (c \div 64), 128 + (c % 64)>>
      [] c < 65536   -> <<224 + (c \div 4096), 128 + ((c \div 64) % 64), 128 + (c % 64)>>
      [] OTHER       -> <<240 + (c \div 262144), 128 + ((c \div 4096) % 64),
                          128 + ((c \div 64) % 64), 128 + (c % 64)>>

\* String::as_bytes
AsBytes(chars) == Flatten(SeqMap(EncodeChar, chars))

(***************************************************************************)
(* string.rs / character.rs                                                *)
(***************************************************************************)
\* Canonical decomposition of one scalar value (unicode_normalization's
\* nfd()) for the scalars the model's inputs and the repository's tests use:
\* Latin-1 letters with a diacritic, two voiced katakana, and the Hangul
\* syllables, which decompose algorithmically; any other scalar is taken as
\* its own NFD.
NfdChar(c) ==
    CASE c = 193 -> <<65, 769>>     \* A acute
      [] c = 197 -> <<65, 778>>     \* A ring
      [] c = 201 -> <<69, 769>>     \* E acute
      [] c = 225 -> <<97, 769>>     \* a acute
      [] c = 229 -> <<97, 778>>     \* a ring
      [] c = 233 -> <<101, 769>>    \* e acute
      [] c = 12489 -> <<12488, 12441>>   \* katakana do = to + voiced mark
      [] c = 12497 -> <<12495, 12442>>   \* katakana pa = ha + semi-voiced mark
      [] c >= 44032 /\ c <= 55203 ->
            LET s == c - 44032
                l == 4352 + (s \div 588)
                v == 4449 + ((s % 588) \div 28)
                t == 4519 + (s % 28)
            IN  IF s % 28 = 0 THEN <<l, v>> ELSE <<l, v, t>>
      [] OTHER -> <<c>>

IsCombiningMark(c) == c >= 768 /\ c <= 879

convert_extended_to_ascii(chars) ==
    SelectSeq(Flatten(SeqMap(NfdChar, chars)), LAMBDA c : ~IsCombiningMark(c))

to_ascii_lowercase(c) == IF c >= 65 /\ c <= 90 THEN c + 32 ELSE c

\* get_mapping() of index_of.rs and get_fuzzy_mapping() of character.rs hold
\* the same eighteen pairs.
get_mapping(c) ==
    CASE c = 52   -> 97     \* 4 -> a
      [] c = 56   -> 98     \* 8 -> b
      [] c = 51   -> 101    \* 3 -> e
      [] c = 54   -> 103    \* 6 -> g
      [] c = 57   -> 103    \* 9 -> g
      [] c = 49   -> 105    \* 1 -> i
      [] c = 108  -> 105    \* l -> i
      [] c = 48   -> 111    \* 0 -> o
      [] c = 53   -> 115    \* 5 -> s
      [] c = 55   -> 116    \* 7 -> t
      [] c = 50   -> 122    \* 2 -> z
      [] c = 174  -> 114    \* (R) -> r
      [] c = 163  -> 101    \* pound -> e
      [] c = 8364 -> 101    \* euro -> e
      [] c = 36   -> 115    \* $ -> s
      [] c = 64   -> 97     \* @ -> a
      [] c = 33   -> 105    \* ! -> i
      [] c = 248  -> 111    \* o slash -> o
      [] OTHER    -> c

get_fuzzy_mapping(c) == get_mapping(c)

is_ascii_alphanumeric(c) ==
    \/ c >= 48 /\ c <= 57
    \/ c >= 65 /\ c <= 90
    \/ c >= 97 /\ c <= 122

is_whitespace(c) ==
    \/ c >= 9 /\ c <= 13
    \/ c \in {32, 133, 160, 5760, 8232, 8233, 8239, 8287, 12288}
    \/ c >= 8192 /\ c <= 8202

is_control(c) == c <= 31 \/ (c >= 127 /\ c <= 159)

is_ascii_punctuation(c) ==
    \/ c >= 33 /\ c <= 47
    \/ c >= 58 /\ c <= 64
    \/ c >= 91 /\ c <= 96
    \/ c >= 123 /\ c <= 126

InRange(c, lo, hi) == c >= lo /\ c <= hi

\* impl From<char> for CharacterClass
CharacterClass(c) ==
    CASE is_ascii_alphanumeric(c) -> "Alphanumeric"
      [] is_whitespace(c) \/ is_control(c) \/ is_ascii_punctuation(c)
            \/ c \in {45, 95, 40, 41} -> "Punctuation"
      [] \/ InRange(c, 19968, 40959)  \/ InRange(c, 13312, 19903)
         \/ InRange(c, 131072, 173791) \/ InRange(c, 173824, 177983)
         \/ InRange(c, 177984, 178207) \/ InRange(c, 178208, 183983)
         \/ InRange(c, 183984, 191471) \/ InRange(c, 196608, 201551)
         \/ InRange(c, 63744, 64255)  \/ InRange(c, 194560, 195103) -> "Chinese"
      [] \/ InRange(c, 44032, 55215)  \/ InRange(c, 4352, 4607)
         \/ InRange(c, 12592, 12687)  \/ InRange(c, 43360, 43391)
         \/ InRange(c, 55216, 55295) -> "Korean"
      [] \/ InRange(c, 12352, 12447)  \/ InRange(c, 12448, 12543)
         \/ InRange(c, 12784, 12799)  \/ InRange(c, 65280, 65519) -> "Japanese"
      [] \/ InRange(c, 1536, 1791)    \/ InRange(c, 1872, 1919)
         \/ InRange(c, 2208, 2303)    \/ InRange(c, 64336, 65023)
         \/ InRange(c, 65136, 65279)  \/ InRange(c, 126464, 126719) -> "Arabic"
      [] OTHER -> "Unclassified"

\* CharacterClass::to_substitution_symbol: <<symbol>>, or <<>> for None
to_substitution_symbol(c) ==
    LET class == CharacterClass(c)
    IN  CASE class = "Alphanumeric" -> <<c>>
          [] class = "Chinese"      -> <<49>>
          [] class = "Japanese"     -> <<50>>
          [] class = "Korean"       -> <<51>>
          [] class = "Arabic"       -> <<52>>
          [] OTHER                  -> <<>>

map_characters_to_fuzzy(chars) ==
    SeqMap(LAMBDA c : get_fuzzy_mapping(to_ascii_lowercase(c)), chars)

convert_to_fuzzy_string(chars) ==
    map_characters_to_fuzzy(convert_extended_to_ascii(chars))

(***************************************************************************)
(* The common-word automaton (automatons/mod.rs, automaton_template.rs).   *)
(* The packaged word list is a build artefact (data/words); WordList is a  *)
(* small stand-in over the letters the model's inputs use: words shorter   *)
(* and longer than LENGTH, an empty entry, an upper-case word, a word with *)
(* an apostrophe and one with a two-byte letter.  Words are byte strings.  *)
(***************************************************************************)
WordList ==
    << <<>>,                          \* the empty entry a trailing newline leaves
       <<97>>,                        \* a
       <<97, 115>>,                   \* as
       <<112, 97, 115, 115>>,         \* pass
       <<115, 97, 112>>,              \* sap
       <<80, 97>>,                    \* Pa
       <<97, 39, 115>>,               \* a's
       <<112, 195, 161, 115>> >>      \* p a-acute s

\* init_automaton::<LENGTH>: the patterns handed to AhoCorasick::new.
\* word.get(..LENGTH) is None when LENGTH is not a character boundary.
init_automaton(L) ==
    LET pattern(word) ==
            CASE Len(word) < L -> <<>>
              [] Len(word) = L -> <<word>>
              [] OTHER -> IF IsUtf8(SubSeq(word, 1, L)) THEN <<SubSeq(word, 1, L)>>
                          ELSE <<>>
    IN  Range(Flatten(SeqMap(pattern, WordList)))

\* AhoCorasick::find_iter with the default MatchKind::Standard over patterns
\* of one common non-zero length: the non-overlapping occurrences, leftmost
\* first.  from is the 0-based offset the scan resumes at.
RECURSIVE FindIterFrom(_, _, _)
FindIterFrom(patterns, hay, from) ==
    LET hits == {i \in from..Len(hay) :
                    \E p \in patterns : /\ i + Len(p) <= Len(hay)
                                        /\ Slice(hay, i, i + Len(p)) = p}
    IN  IF hits = {} THEN <<>>
        ELSE LET s == CHOOSE i \in hits : \A j \in hits : i <= j
                 p == CHOOSE q \in patterns : /\ s + Len(q) <= Len(hay)
                                              /\ Slice(hay, s, s + Len(q)) = q
             IN  <<[start |-> s, end |-> s + Len(p)]>>
                 \o FindIterFrom(patterns, hay, s + Len(p))

find_iter(patterns, hay) == FindIterFrom(patterns, hay, 0)

(***************************************************************************)
(* models/index_of.rs                                                      *)
(***************************************************************************)
\* Cleaned without the to_ascii_lowercase step.
Cleaned_keepcase(value) ==
    Flatten(SeqMap(to_substitution_symbol,
        SeqMap(get_mapping, convert_extended_to_ascii(FromUtf8Lossy(value)))))

\* The normalised item of impl From<&[u8]> for IndexOf.
Cleaned(value) ==
    Flatten(SeqMap(to_substitution_symbol,
        SeqMap(LAMBDA c : get_mapping(to_ascii_lowercase(c)),
               convert_extended_to_ascii(FromUtf8Lossy(value)))))

\* impl From<&[u8]> for IndexOf<LENGTH, DEPTH>
IndexOfFrom(L, value) ==
    LET cleaned == Cleaned(value)
    IN  [item    |-> cleaned,
         index   |-> 0,
         matches |-> find_iter(init_automaton(L), AsBytes(cleaned)),
         seen    |-> {}]

\* IndexOf::next_by_common_words: [self, out]
RECURSIVE next_by_common_words(_)
next_by_common_words(self) ==
    IF self.matches = <<>> THEN [self |-> self, out |-> None]
    ELSE LET matched == Head(self.matches)
             popped  == [self EXCEPT !.matches = Tail(self.matches)]
             word    == Slice(self.item, matched.start, matched.end)
         IN  IF word \in self.seen
             THEN next_by_common_words(popped)
             ELSE [self |-> [popped EXCEPT !.seen = @ \cup {word}], out |-> word]

\* IndexOf::next_by_position and Iterator::next call each other.
RECURSIVE IndexOfNext(_, _, _)

\* next_by_position without the seen-set test.
next_by_position_unseen(L, D, self) ==
    IF self.item = <<>> THEN [self |-> self, out |-> None]
    ELSE IF self.index + L > Len(self.item) THEN [self |-> self, out |-> None]
    ELSE IF self.index >= D THEN [self |-> self, out |-> None]
    ELSE LET index   == self.index
             result  == Slice(self.item, index, Min(index + L, Len(self.item)))
         IN  [self |-> [self EXCEPT !.index = index + 1, !.seen = @ \cup {result}],
              out |-> result]

\* next_by_position with the depth test off by one (index > DEPTH).
next_by_position_deeper(L, D, self) ==
    IF self.item = <<>> THEN [self |-> self, out |-> None]
    ELSE IF self.index + L > Len(self.item) THEN [self |-> self, out |-> None]
    ELSE IF self.index > D THEN [self |-> self, out |-> None]
    ELSE LET index   == self.index
             stepped == [self EXCEPT !.index = index + 1]
             result  == Slice(self.item, index, Min(index + L, Len(self.item)))
         IN  IF result \in self.seen
             THEN IndexOfNext(L, D, stepped)
             ELSE [self |-> [stepped EXCEPT !.seen = @ \cup {result}], out |-> result]

\* next_by_position without the guard against an item shorter than LENGTH.
next_by_position_unguarded(L, D, self) ==
    IF self.item = <<>> THEN [self |-> self, out |-> None]
    ELSE IF self.index >= Len(self.item) THEN [self |-> self, out |-> None]
    ELSE IF self.index >= D THEN [self |-> self, out |-> None]
    ELSE LET index   == self.index
             stepped == [self EXCEPT !.index = index + 1]
             result  == Slice(self.item, index, Min(index + L, Len(self.item)))
         IN  IF result \in self.seen
             THEN IndexOfNext(L, D, stepped)
             ELSE [self |-> [stepped EXCEPT !.seen = @ \cup {result}], out |-> result]

next_by_position(L, D, self) ==
    IF self.item = <<>> THEN [self |-> self, out |-> None]
    ELSE IF self.index + L > Len(self.item) THEN [self |-> self, out |-> None]
    ELSE IF self.index >= D THEN [self |-> self, out |-> None]
    ELSE LET index   == self.index
             stepped == [self EXCEPT !.index = index + 1]
             result  == Slice(self.item, index, Min(index + L, Len(self.item)))
         IN  IF result \in self.seen
             THEN IndexOfNext(L, D, stepped)
             ELSE [self |-> [stepped EXCEPT !.seen = @ \cup {result}], out |-> result]

\* impl Iterator for IndexOf: next_by_position().or_else(next_by_common_words)
IndexOfNext(L, D, self) ==
    LET byPosition == next_by_position(L, D, self)
    IN  IF byPosition.out # None THEN byPosition
        ELSE next_by_common_words(byPosition.self)

\* indices_of::<L, D>(item) collected: every key the iterator yields, in order.
RECURSIVE Collect(_, _, _)
Collect(L, D, self) ==
    LET r == IndexOfNext(L, D, self)
    IN  IF r.out = None THEN <<>> ELSE <<r.out>> \o Collect(L, D, r.self)

indices_of(L, D, item) == Collect(L, D, IndexOfFrom(L, item))

(***************************************************************************)
(* SpecKeys: one IndexOf iterator, driven one next() at a time.            *)
(***************************************************************************)
MaxLength == 2      \* LENGTH ranges over 1..MaxLength
MaxDepth  == 2      \* DEPTH ranges over 1..MaxDepth
MaxPieces == 3      \* an input is at most MaxPieces pieces long

\* The pieces inputs are assembled from: letters of the word list, a leet
\* digit, a blank, a two-byte letter with a diacritic (A acute), a three-byte
\* CJK ideograph and a byte that is valid nowhere in UTF-8.
InputPieces ==
    { <<112>>, <<97>>, <<115>>, <<52>>, <<32>>,
      <<195, 129>>, <<229, 175, 134>>, <<255>> }

Inputs == {Flatten(ps) : ps \in SeqsOf(InputPieces, 0, MaxPieces)}

InitKeys ==
    /\ WriterIdle
    /\ SearchIdle
    /\ ReaderIdle
    /\ PathsIdle
    /\ ChunkIdle
    /\ FfiIdle
    /\ FindIdle
    /\ FileIdle
    /\ StreamIdle
    /\ genLength \in 1..MaxLength
    /\ genDepth \in 1..MaxDepth
    /\ input \in Inputs
    /\ indexOf = IndexOfFrom(genLength, input)
    /\ keys = <<>>
    /\ ended = FALSE

\* One call of Iterator::next on the iterator.
IteratorNext ==
    LET r == IndexOfNext(genLength, genDepth, indexOf)
    IN  /\ indexOf' = r.self
        /\ \/ /\ r.out # None
              /\ keys' = Append(keys, r.out)
              /\ ended' = ended
           \/ /\ r.out = None
              /\ ~ended
              /\ keys' = keys
              /\ ended' = TRUE
        /\ UNCHANGED <<genLength, genDepth, input, writeVars, searchVars, readerVars, pathVars, chunkVars, ffiVars, findVars, fileVars, streamVars>>

NextKeys == IteratorNext

SpecKeys == InitKeys /\ [][NextKeys]_vars

(***************************************************************************)
(* models/index_file.rs                                                    *)
(***************************************************************************)
INDEX_LENGTH == 3
INDEX_DEPTH == 1

\* The const generic MAX_BUFFER (MAX_SIZE) of IndexFile, far below the
\* default 4096 so that a few short lines fill the buffer.
MAX_BUFFER == 4

Put(f, k, v) == [x \in DOMAIN f \cup {k} |-> IF x = k THEN v ELSE f[x]]
Remove(f, k) == [x \in DOMAIN f \ {k} |-> f[x]]

\* IndexFile::new: an empty buffer and an empty seen-set; no file is created.
IndexFileNew == [buffer |-> <<>>, seen |-> {}]

\* What the file system may answer to flush_buffer's open_for_write and to
\* its one call of Write::write on a buffer: the open fails, the write
\* fails, or the write accepts the first n bytes, 1 <= n <= len.
WriteOutcomes(buffer) ==
    {[kind |-> "written", n |-> n] : n \in 1..Len(buffer)}
        \cup {[kind |-> "open_failed", n |-> 0], [kind |-> "write_failed", n |-> 0]}

IsShort(o, buffer) == o.kind = "written" /\ o.n < Len(buffer)
IsError(o) == o.kind # "written"

\* A flush_buffer whose file is opened without append: what is written
\* replaces what the file held.
flush_buffer_without_append(d, key, buffer, o) ==
    IF buffer = <<>> \/ o.kind # "written"
    THEN [disk |-> d, buffer |-> buffer, result |-> "Ok", written |-> 0]
    ELSE [disk |-> Put(d, key, SubSeq(buffer, 1, o.n)), buffer |-> <<>>,
          result |-> "Ok", written |-> o.n]

\* A flush_buffer whose file is opened for writing without append: the write
\* starts at the beginning of the file, over the bytes it held.
flush_buffer_from_start(d, key, buffer, o) ==
    LET existing == IF key \in DOMAIN d THEN d[key] ELSE <<>>
    IN  IF buffer = <<>> \/ o.kind # "written"
        THEN [disk |-> d, buffer |-> buffer, result |-> "Ok", written |-> 0]
        ELSE [disk |-> Put(d, key, SubSeq(buffer, 1, o.n)
                                      \o SubSeq(existing, o.n + 1, Len(existing))),
              buffer |-> <<>>, result |-> "Ok", written |-> o.n]

\* A flush_buffer that opens the file before it looks at the buffer.
flush_buffer_opening_first(d, key, buffer, o) ==
    LET existing == IF key \in DOMAIN d THEN d[key] ELSE <<>>
    IN  IF buffer = <<>>
        THEN [disk |-> Put(d, key, existing), buffer |-> buffer, result |-> "Ok", written |-> 0]
        ELSE [disk |-> Put(d, key, existing \o SubSeq(buffer, 1, Max(1, o.n))),
              buffer |-> <<>>, result |-> "Ok", written |-> Max(1, o.n)]

\* IndexFile::flush_buffer on the file of key in directory d
flush_buffer(d, key, buffer, o) ==
    LET existing == IF key \in DOMAIN d THEN d[key] ELSE <<>>
    IN  IF buffer = <<>>
        THEN [disk |-> d, buffer |-> buffer, result |-> "Ok", written |-> 0]
        ELSE CASE o.kind = "open_failed" ->
                    [disk |-> d, buffer |-> buffer, result |-> "Err", written |-> 0]
               [] o.kind = "write_failed" ->
                    [disk |-> Put(d, key, existing), buffer |-> <<>>,
                     result |-> "Err", written |-> 0]
               [] OTHER ->
                    [disk |-> Put(d, key, existing \o SubSeq(buffer, 1, o.n)),
                     buffer |-> <<>>, result |-> "Ok", written |-> o.n]

\* A test that forgets the newline appended after the item.
BufferFull_without_newline(buffer, item) == Len(buffer) + Len(item) > MAX_BUFFER

\* Whether IndexFile::add has to flush before it appends item.
BufferFull(buffer, item) == Len(buffer) + Len(item) + 1 > MAX_BUFFER

\* IndexFile::add from the moment it holds the buffer's lock.
add_buffered(d, key, buffer, item, o) ==
    LET flushed == IF BufferFull(buffer, item)
                   THEN flush_buffer(d, key, buffer, o)
                   ELSE [disk |-> d, buffer |-> buffer, result |-> "Ok", written |-> 0]
    IN  IF flushed.result = "Err" THEN flushed
        ELSE [flushed EXCEPT !.buffer = flushed.buffer \o item \o <<10>>]

(***************************************************************************)
(* search/models/search_style.rs, manipulated_reader.rs, lines_scanner.rs  *)
(* Strings are kept as their UTF-8 bytes; a query is a non-empty str.      *)
(***************************************************************************)
\* config::MAX_LINE_LENGTH, how far line_of_range seeks back from a match:
\* 256 in the program, reduced here so that short files reach past it.
MAX_LINE_LENGTH == 4

\* u8::to_ascii_lowercase over a slice; str::to_ascii_lowercase is the same
\* on the bytes of a str.
lowercase_bytes(bs) == SeqMap(to_ascii_lowercase, bs)

\* convert_to_fuzzy_string(&String::from_utf8_lossy(..)).collect::<String>()
fuzzy_bytes(bs) == AsBytes(convert_to_fuzzy_string(FromUtf8Lossy(bs)))

\* SearchStyle::transform_query on one query
transform_query(style, q) ==
    CASE style = "Strict"          -> q
      [] style = "CaseInsensitive" -> lowercase_bytes(q)
      [] OTHER                     -> fuzzy_bytes(q)

\* A reader that hands the file's bytes on as they are, whatever the style.
transform_reader_untouched(style, bytes) == bytes

\* SearchStyle::transform_reader with ManipulatedReader::read: the bytes the
\* automaton sees when one read returns the whole file.
transform_reader(style, bytes) ==
    CASE style = "Strict"          -> bytes
      [] style = "CaseInsensitive" -> lowercase_bytes(bytes)
      [] OTHER                     -> fuzzy_bytes(bytes)

\* BufRead::read_line into a String at offset pos of file: the bytes up to
\* and including the next newline (or the end of the file), their count,
\* and whether they are valid UTF-8 (read_line fails when they are not).
read_line(file, pos) ==
    LET rest  == IF pos >= Len(file) THEN <<>> ELSE SubSeq(file, pos + 1, Len(file))
        nl    == {i \in 1..Len(rest) : rest[i] = 10}
        n     == IF nl = {} THEN Len(rest) ELSE CHOOSE i \in nl : \A j \in nl : i <= j
        bytes == SubSeq(rest, 1, n)
    IN  [n |-> n, bytes |-> bytes, ok |-> IsUtf8(bytes)]

\* str::trim_end
RECURSIVE trim_end(_)
trim_end(chars) ==
    IF chars # <<>> /\ is_whitespace(chars[Len(chars)])
    THEN trim_end(SubSeq(chars, 1, Len(chars) - 1))
    ELSE chars

\* The while loop of line_of_range.  A read_line that returns 0 at the end
\* of the file leaves pos where it is, so the loop never ends.
RECURSIVE ReadUntil(_, _, _, _)
ReadUntil(file, pos, range_end, buffer) ==
    IF pos >= range_end THEN [kind |-> "Read", buffer |-> buffer]
    ELSE LET r == read_line(file, pos)
         IN  IF ~r.ok THEN [kind |-> "Err", buffer |-> <<>>]
             ELSE IF r.n = 0 THEN [kind |-> "Hang", buffer |-> <<>>]
             ELSE ReadUntil(file, pos + r.n, range_end, r.bytes)

\* LinesScanner::line_of_range
line_of_range(file, range) ==
    LET r    == ReadUntil(file, Max(0, range.start - MAX_LINE_LENGTH), range.end, <<>>)
        line == AsBytes(trim_end(FromUtf8Lossy(r.buffer)))
    IN  CASE r.kind = "Hang" -> [kind |-> "Hang", line |-> <<>>]
          [] r.kind = "Err" \/ line = <<>> -> [kind |-> "Err", line |-> <<>>]
          [] OTHER -> [kind |-> "Ok", line |-> line]

\* LinesScanner::new: the ranges of the matches in the transformed stream
LinesScannerNew(file, q, style) ==
    find_iter({transform_query(style, q)}, transform_reader(style, file))

\* IndexFile::find_lines_containing(&[q], style) iterated to its end: one
\* item per range, in order.
LinesScanner(file, q, style) ==
    SeqMap(LAMBDA range : line_of_range(file, range), LinesScannerNew(file, q, style))

(***************************************************************************)
(* search/implementations/index_collection.rs over the directory d         *)
(***************************************************************************)
\* IndexCollection::index_files_for: the keys of the query whose file exists
index_files_for(d, q) ==
    SelectSeq(indices_of(INDEX_LENGTH, INDEX_DEPTH, q), LAMBDA k : k \in DOMAIN d)

\* IndexCollection::find_lines_containing without the lru feature: the Ok
\* lines of every file, as a set.
find_lines_containing(d, q, style) ==
    LET files == index_files_for(d, q)
        items == Flatten(SeqMap(LAMBDA k : LinesScanner(d[k], q, style), files))
    IN  IF \E i \in 1..Len(items) : items[i].kind = "Hang"
        THEN [state |-> "hang", lines |-> {}]
        ELSE [state |-> "returned",
              lines |-> {items[i].line : i \in {j \in 1..Len(items) : items[j].kind = "Ok"}}]

\* The Vec of reader IndexFiles made by index_files_for goes out of scope at
\* the end of find_lines_containing: Drop for IndexFile flushes the buffer of
\* each, which from_path left empty.
RECURSIVE DropReaderFiles(_, _)
DropReaderFiles(d, files) ==
    IF files = <<>> THEN d
    ELSE DropReaderFiles(
            flush_buffer(d, Head(files), <<>>, [kind |-> "written", n |-> 0]).disk,
            Tail(files))

\* One call of IndexCollection::find_lines_containing(q, s) on the directory
\* once no collection is writing to it.
Search(q, s) ==
    /\ alive \in {"dropped", "panicked"}
    /\ found[s].state = "none"
    /\ query \in {<<>>, q}
    /\ query' = q
    /\ found' = [found EXCEPT ![s] = find_lines_containing(disk, q, s)]
    /\ disk' = DropReaderFiles(disk, index_files_for(disk, q))
    /\ UNCHANGED <<dedup, indices, readers, alive, th, added, results, returned, faults>>
    /\ UNCHANGED <<scanned, keyVars, readerVars, pathVars, chunkVars, ffiVars, findVars, fileVars, streamVars>>

\* One call of IndexFile::find_lines_containing(&[q], s) on the file of key
\* k, iterated to its end.
ScanFile(k, q, s) ==
    /\ alive \in {"dropped", "panicked"}
    /\ k \in DOMAIN disk
    /\ scanned[s].state = "none"
    /\ query \in {<<>>, q}
    /\ query' = q
    /\ scanned' = [scanned EXCEPT ![s] =
                     [state |-> "done", key |-> k, items |-> LinesScanner(disk[k], q, s)]]
    /\ UNCHANGED <<found, keyVars, writeVars, readerVars, pathVars, chunkVars, ffiVars, findVars, fileVars, streamVars>>

(***************************************************************************)
(* Spec: threads call IndexCollection::add on one shared collection, which *)
(* is then dropped.  (models/index_collection.rs)                          *)
(***************************************************************************)
MaxAdds    == 3     \* add calls made in one behaviour
MaxFaults  == 1     \* answers of the file system other than a full write

\* The sizes of the pool whose workers share the collection (--threads):
\* with one worker the calls of add follow one another, with two they overlap.
Threads == {1, 2}

\* The lines the threads add: P4s (normalised to pas), apas (keys apa and,
\* by the word list, pas), as (too short for a key) and a-acute p a (four
\* bytes, normalised to apa).
AddLines ==
    { <<80, 52, 115>>, <<97, 112, 97, 115>>, <<97, 115>>, <<195, 161, 112, 97>> }

\* The keys of those lines
AddKeys == UNION {Range(indices_of(INDEX_LENGTH, INDEX_DEPTH, line)) : line \in AddLines}

\* A worker of the pool that is not inside a call of add.
Idle == [pc |-> "idle", call |-> 0, item |-> <<>>, iter |-> <<>>, key |-> <<>>,
         result |-> None]

Init ==
    /\ KeysIdle
    /\ SearchIdle
    /\ ReaderIdle
    /\ PathsIdle
    /\ ChunkIdle
    /\ FfiIdle
    /\ FindIdle
    /\ FileIdle
    /\ StreamIdle
    /\ dedup \in BOOLEAN
    /\ indices = <<>>
    /\ readers = {}
    /\ disk = <<>>
    /\ alive = "open"
    /\ th \in {[t \in 1..n |-> Idle] : n \in Threads}
    /\ added = <<>>
    /\ results = <<>>
    /\ returned = {}
    /\ faults = [errors |-> 0, short |-> 0]

FaultsLeft(f) == MaxFaults - (f.errors + f.short)

\* The answers flush_buffer may get for buffer when it is about to flush,
\* f being the faults so far.
FlushChoices(buffer, flushing, f) ==
    IF ~flushing \/ buffer = <<>> THEN {[kind |-> "written", n |-> Len(buffer)]}
    ELSE {o \in WriteOutcomes(buffer) :
            (IsError(o) \/ IsShort(o, buffer)) => FaultsLeft(f) > 0}

Charge(f, o, buffer, flushing) ==
    IF ~flushing \/ buffer = <<>> THEN f
    ELSE [errors |-> f.errors + (IF IsError(o) THEN 1 ELSE 0),
          short  |-> f.short + (IF IsShort(o, buffer) THEN 1 ELSE 0)]

\* The try_for_each of IndexCollection::add moving on after a key went well:
\* the next key of the iterator, or the end of the call with Ok.
Advance(self, iter) ==
    LET r == IndexOfNext(INDEX_LENGTH, INDEX_DEPTH, iter)
    IN  IF r.out = None
        THEN [Idle EXCEPT !.result = "Ok"]
        ELSE [self EXCEPT !.pc = "assert", !.iter = r.self, !.key = r.out]

\* A closure returned Err: try_for_each stops and add returns the error.
Fail(self) == [Idle EXCEPT !.result = "Err"]

\* What the closure came to for the key the thread is at.
Returned(self, value) == [call |-> self.call, key |-> self.key, value |-> value]

\* Thread t goes on as next says; when that is the return of add, the
\* call's result is recorded and the worker is free again.
Continue(t, next) ==
    IF next.pc = "idle"
    THEN /\ th' = [th EXCEPT ![t] = Idle]
         /\ results' = [results EXCEPT ![th[t].call] = next.result]
    ELSE /\ th' = [th EXCEPT ![t] = next]
         /\ UNCHANGED results

\* IndexCollection::add is called with line on a free worker (the pool
\* hands a call to the first one): the iterator is built and its first
\* key, if any, is taken.
add(t, line) ==
    /\ alive = "open"
    /\ t \in DOMAIN th
    /\ th[t].pc = "idle"
    /\ \A u \in DOMAIN th : u < t => th[u].pc # "idle"
    /\ Len(added) < MaxAdds
    /\ added' = Append(added, line)
    /\ LET next == Advance([Idle EXCEPT !.item = line, !.call = Len(added) + 1],
                           IndexOfFrom(INDEX_LENGTH, line))
       IN  IF next.pc = "idle"
           THEN /\ results' = Append(results, next.result)
                /\ UNCHANGED th
           ELSE /\ results' = Append(results, None)
                /\ th' = [th EXCEPT ![t] = next]
    /\ UNCHANGED <<dedup, returned, indices, readers, disk, alive, faults, keyVars, searchVars, readerVars, pathVars, ffiVars, findVars, fileVars, streamVars>>

\* A call of add made on the collection by a worker of the pool.
AddBegin(t, line) ==
    /\ add(t, line)
    /\ UNCHANGED chunkVars

\* An assert_index_exists that inserts a new IndexFile without looking
\* whether the key is there.
AssertIndexExists_without_contains_key(t) ==
    /\ t \in DOMAIN th
    /\ th[t].pc = "assert"
    /\ readers = {}
    /\ indices' = Put(indices, th[t].key, IndexFileNew)
    /\ th' = [th EXCEPT ![t].pc = "lookup"]
    /\ UNCHANGED <<faults, results, returned>>
    /\ UNCHANGED <<dedup, readers, disk, alive, added, keyVars, searchVars, readerVars, pathVars, chunkVars, ffiVars, findVars, fileVars, streamVars>>

\* IndexCollection::assert_index_exists under the map's write lock, which
\* waits for every read lock to be released.  IndexFile::new fails when
\* create_dir_all does.
AssertIndexExists(t) ==
    /\ t \in DOMAIN th
    /\ th[t].pc = "assert"
    /\ readers = {}
    /\ \/ /\ th[t].key \in DOMAIN indices
          /\ th' = [th EXCEPT ![t].pc = "lookup"]
          /\ UNCHANGED <<indices, faults, results, returned>>
       \/ /\ th[t].key \notin DOMAIN indices
          /\ indices' = Put(indices, th[t].key, IndexFileNew)
          /\ th' = [th EXCEPT ![t].pc = "lookup"]
          /\ UNCHANGED <<faults, results, returned>>
       \/ /\ th[t].key \notin DOMAIN indices
          /\ FaultsLeft(faults) > 0
          /\ faults' = [faults EXCEPT !.errors = @ + 1]
          /\ Continue(t, Fail(th[t]))
          /\ returned' = returned \cup {Returned(th[t], "NewErr")}
          /\ UNCHANGED indices
    /\ UNCHANGED <<dedup, readers, disk, alive, added, keyVars, searchVars, readerVars, pathVars, chunkVars, ffiVars, findVars, fileVars, streamVars>>

\* IndexFile::contains_or_set on the seen-set of file
contains_or_set(file, item) ==
    [seen |-> file.seen \cup {item}, contained |-> item \in file.seen]

\* A BufferStep that returns with the read lock of the map still held.
BufferStep_keeping_read_lock(t) ==
    /\ t \in DOMAIN th
    /\ th[t].pc = "buffer"
    /\ LET r == add_buffered(disk, th[t].key, indices[th[t].key].buffer, th[t].item,
                             [kind |-> "written", n |-> Len(indices[th[t].key].buffer)])
       IN  /\ disk' = r.disk
           /\ indices' = [indices EXCEPT ![th[t].key].buffer = r.buffer]
           /\ returned' = returned \cup {Returned(th[t], "true")}
           /\ Continue(t, Advance(th[t], th[t].iter))
    /\ UNCHANGED <<readers, faults>>
    /\ UNCHANGED <<dedup, alive, added, keyVars, searchVars, readerVars, pathVars, chunkVars, ffiVars, findVars, fileVars, streamVars>>

\* IndexCollection::add takes the map's read lock and calls IndexFile::add,
\* whose first step under dedup is contains_or_set; a line already seen ends
\* IndexFile::add with Ok(false).
Lookup(t) ==
    /\ t \in DOMAIN th
    /\ th[t].pc = "lookup"
    /\ LET key == th[t].key
           cs  == contains_or_set(indices[key], th[t].item)
       IN  IF dedup /\ cs.contained
           THEN /\ Continue(t, Advance(th[t], th[t].iter))
                /\ returned' = returned \cup {Returned(th[t], "false")}
                /\ UNCHANGED <<indices, readers>>
           ELSE /\ th' = [th EXCEPT ![t].pc = "buffer"]
                /\ UNCHANGED <<results, returned>>
                /\ readers' = readers \cup {t}
                /\ indices' = IF dedup
                              THEN [indices EXCEPT ![key].seen = cs.seen]
                              ELSE indices
    /\ UNCHANGED <<dedup, disk, alive, added, faults, keyVars, searchVars, readerVars, pathVars, chunkVars, ffiVars, findVars, fileVars, streamVars>>

\* The rest of IndexFile::add under the buffer's lock: flush when the line
\* does not fit, append the line and a newline; then the read lock is released.
BufferStep(t) ==
    /\ t \in DOMAIN th
    /\ th[t].pc = "buffer"
    /\ LET key      == th[t].key
           buffer   == indices[key].buffer
           flushing == BufferFull(buffer, th[t].item)
       IN  \E o \in FlushChoices(buffer, flushing, faults) :
             LET r == add_buffered(disk, key, buffer, th[t].item, o)
             IN  /\ disk' = r.disk
                 /\ indices' = [indices EXCEPT ![key].buffer = r.buffer]
                 /\ faults' = Charge(faults, o, buffer, flushing)
                 /\ returned' = returned \cup
                        {Returned(th[t], IF r.result = "Err" THEN "Err" ELSE "true")}
                 /\ Continue(t, IF r.result = "Err" THEN Fail(th[t])
                                 ELSE Advance(th[t], th[t].iter))
    /\ readers' = readers \ {t}
    /\ UNCHANGED <<dedup, alive, added, keyVars, searchVars, readerVars, pathVars, chunkVars, ffiVars, findVars, fileVars, streamVars>>

\* The collection goes out of scope once no call of add is running.
DropBegin ==
    /\ alive = "open"
    /\ \A t \in DOMAIN th : th[t].pc = "idle"
    /\ alive' = "dropping"
    /\ UNCHANGED <<dedup, indices, readers, disk, th, added, results, returned, faults,
                   keyVars, searchVars, readerVars, pathVars, chunkVars, ffiVars, findVars, fileVars, streamVars>>

\* IndexCollection::post_process on one IndexFile of the map taken out by
\* mem::swap, in the map's arbitrary order: IndexFile::post_process flushes,
\* and the IndexFile is dropped at the end of the closure, where Drop flushes
\* again.  An Err of post_process ends the try_for_each.
DropIndex(key) ==
    /\ alive = "dropping"
    /\ key \in DOMAIN indices
    /\ LET buffer == indices[key].buffer
       IN  \E o1 \in FlushChoices(buffer, TRUE, faults) :
             LET first == flush_buffer(disk, key, buffer, o1)
                 f1    == Charge(faults, o1, buffer, TRUE)
             IN  \E o2 \in FlushChoices(first.buffer, TRUE, f1) :
                   LET second == flush_buffer(first.disk, key, first.buffer, o2)
                   IN  /\ disk' = second.disk
                       /\ faults' = Charge(f1, o2, first.buffer, TRUE)
                       /\ indices' = Remove(indices, key)
                       /\ alive' = IF first.result = "Err" THEN "unwinding" ELSE alive
    /\ UNCHANGED <<dedup, returned, readers, th, added, results, keyVars, searchVars, readerVars, pathVars, chunkVars, ffiVars, findVars, fileVars, streamVars>>

\* After an Err of post_process the IndexFiles left in the iterator are
\* dropped without being post-processed: Drop flushes each once.
DropRemaining(key) ==
    /\ alive = "unwinding"
    /\ key \in DOMAIN indices
    /\ LET buffer == indices[key].buffer
       IN  \E o \in FlushChoices(buffer, TRUE, faults) :
             /\ disk' = flush_buffer(disk, key, buffer, o).disk
             /\ faults' = Charge(faults, o, buffer, TRUE)
             /\ indices' = Remove(indices, key)
    /\ UNCHANGED <<dedup, returned, readers, alive, th, added, results, keyVars, searchVars, readerVars, pathVars, chunkVars, ffiVars, findVars, fileVars, streamVars>>

\* Every IndexFile has been dropped: Drop for IndexCollection returns, or
\* panics on the Err of post_process.
DropEnd ==
    /\ alive \in {"dropping", "unwinding"}
    /\ DOMAIN indices = {}
    /\ alive' = IF alive = "dropping" THEN "dropped" ELSE "panicked"
    /\ UNCHANGED <<dedup, indices, readers, disk, th, added, results, returned, faults,
                   keyVars, searchVars, readerVars, pathVars, chunkVars, ffiVars, findVars, fileVars, streamVars>>

\* The queries searched for once the collection is gone: as, pas, apa, P4s
WriterQueries == { <<97, 115>>, <<112, 97, 115>>, <<97, 112, 97>>, <<80, 52, 115>> }

\* The one search made on the directory the collection left behind.
SearchAfterDrop(q, s) ==
    /\ \A x \in Styles : found[x].state = "none"
    /\ Search(q, s)

Next ==
    \/ \E t \in Threads, line \in AddLines : AddBegin(t, line)
    \/ \E t \in Threads : AssertIndexExists(t)
    \/ \E t \in Threads : Lookup(t)
    \/ \E t \in Threads : BufferStep(t)
    \/ DropBegin
    \/ \E k \in AddKeys : DropIndex(k)
    \/ \E k \in AddKeys : DropRemaining(k)
    \/ DropEnd
    \/ \E q \in WriterQueries, s \in Styles : SearchAfterDrop(q, s)

Spec == Init /\ [][Next]_vars

\* The step thread t takes next inside a call of add.
AddStep(t) == AssertIndexExists(t) \/ Lookup(t) \/ BufferStep(t)

\* The same under a fair scheduler: a worker that can go on inside add does
\* so in the end (the workers are threads of the operating system, and a
\* lock that is free is handed to one that waits for it).
SpecFair == Spec /\ \A t \in Threads : WF_vars(AddStep(t))

(***************************************************************************)
(* SpecSearch: searches over an index directory that is already there.     *)
(***************************************************************************)
MaxFileLines == 2    \* a shard file has at most MaxFileLines lines

\* The lines a shard file is made of: pas, Pas, p4s, "as " with a trailing
\* blank, e-acute (two bytes), xxas, two lines longer than MAX_LINE_LENGTH
\* (xxxpas and xxspasPas) and a line that is one byte no UTF-8 text contains.
SearchLines ==
    { <<112, 97, 115>>, <<80, 97, 115>>, <<112, 52, 115>>, <<97, 115, 32>>,
      <<195, 169>>, <<120, 120, 97, 115>>, <<120, 120, 120, 112, 97, 115>>,
      <<120, 120, 115, 112, 97, 115, 80, 97, 115>>, <<255>> }

\* A file holding the lines ls, each ended by a newline.
FileOf(ls) == Flatten(SeqMap(LAMBDA l : l \o <<10>>, ls))

SearchFiles == {FileOf(ls) : ls \in SeqsOf(SearchLines, 0, MaxFileLines)}

\* The one shard of the directory: subset_pas.csv
ShardKey == <<112, 97, 115>>

\* The queries: as, pas, Pas, p4s, sPas
Queries ==
    { <<97, 115>>, <<112, 97, 115>>, <<80, 97, 115>>, <<112, 52, 115>>,
      <<115, 80, 97, 115>> }

InitSearch ==
    /\ KeysIdle
    /\ ReaderIdle
    /\ PathsIdle
    /\ ChunkIdle
    /\ FfiIdle
    /\ FindIdle
    /\ FileIdle
    /\ StreamIdle
    /\ dedup = FALSE
    /\ indices = <<>>
    /\ readers = {}
    /\ disk \in {[k \in {ShardKey} |-> f] : f \in SearchFiles}
    /\ alive = "dropped"
    /\ th = <<>>
    /\ added = <<>>
    /\ results = <<>>
    /\ returned = {}
    /\ faults = [errors |-> 0, short |-> 0]
    /\ query \in Queries
    /\ scanned = [s \in Styles |-> [state |-> "none", key |-> <<>>, items |-> <<>>]]
    /\ found = [s \in Styles |-> [state |-> "none", lines |-> {}]]

NextSearch ==
    \/ \E q \in Queries, s \in Styles : Search(q, s)
    \/ \E k \in {ShardKey}, q \in Queries, s \in Styles : ScanFile(k, q, s)

SpecSearch == InitSearch /\ [][NextSearch]_vars

(***************************************************************************)
(* SpecReader: FixedMemoryReader::take_until called again and again on one *)
(* input, with a buffer of chunk_size bytes.  (crates/reader/src/sync.rs)  *)
(***************************************************************************)
MaxSource   == 6    \* the input has at most MaxSource bytes
MaxSentence == 3    \* ML is at most MaxSentence
MaxChunk    == 6    \* chunk_size is at most MaxChunk
MaxCalls    == 5    \* calls of take_until made in one behaviour

\* The separator handed to take_until, and the bytes of the input: the
\* separator, a and b.
SEP == 10
SourceBytes == {10, 97, 98}

\* FixedMemoryReader::new: overflow is new_buffer(ML), ML bytes that were
\* never written (shown as 0; the first call clears them unread).
FixedMemoryReaderNew(bytes, chunk_size, ml) ==
    [inner |-> bytes, chunk_size |-> chunk_size,
     overflow |-> [i \in 1..ml |-> 0], overflow_pointer |-> 0]

\* A read_until that stops after one byte, whatever the byte.
read_until_one_byte(inner, byte) == SubSeq(inner, 1, Min(1, Len(inner)))

\* BufRead::read_until(byte, ..) on what is left of the input: the bytes up
\* to and including the first byte, or all of them when there is none.
read_until(inner, byte) ==
    LET at == {i \in 1..Len(inner) : inner[i] = byte}
        n  == IF at = {} THEN Len(inner) ELSE CHOOSE i \in at : \A j \in at : i <= j
    IN  SubSeq(inner, 1, n)

\* The counts one BufReader::read into a slice of len bytes may return: 0
\* for an empty slice or at the end of the input, otherwise any count from
\* 1 to what the slice takes and the input still has (the BufReader hands
\* out what its own buffer holds, which need not fill the slice).
ReadCounts(inner, len) ==
    IF len = 0 \/ inner = <<>> THEN {0} ELSE 1..Min(len, Len(inner))

\* The loop of take_until: lines are read into overflow and copied to the
\* buffer while they leave it below chunk_size; the line that does not, or
\* the end of the input, ends the call, the line staying in overflow.
RECURSIVE take_until_loop(_, _, _)
take_until_loop(self, byte, buffer) ==
    LET line             == read_until(self.inner, byte)
        overflow_pointer == Len(line)
        rest             == SubSeq(self.inner, overflow_pointer + 1, Len(self.inner))
    IN  IF Len(buffer) + overflow_pointer >= self.chunk_size \/ overflow_pointer = 0
        THEN [self   |-> [self EXCEPT !.inner = rest, !.overflow = line,
                                      !.overflow_pointer = overflow_pointer],
              result |-> [kind |-> "Ok", n |-> Len(buffer), bytes |-> buffer]]
        ELSE take_until_loop([self EXCEPT !.inner = rest, !.overflow = <<>>],
                             byte, buffer \o line)

\* A take_until that returns the length of the buffer, not the count read.
take_until_buffer_length(self, ml, byte, len, count) ==
    [self |-> self, result |-> [kind |-> "Ok", n |-> len, bytes |-> <<>>]]

\* FixedMemoryReader::take_until(byte, buffer) with a buffer of len bytes,
\* count being what the one inner.read returns.  The slice expressions
\* buffer[..overflow_pointer] and buffer[read..chunk_size - ML] panic when
\* out of range.
take_until(self, ml, byte, len, count) ==
    LET read  == self.overflow_pointer
        carry == SubSeq(self.overflow, 1, self.overflow_pointer)
        limit == Max(0, self.chunk_size - ml)
    IN  IF len < self.chunk_size \/ read > len \/ read > limit
        THEN [self |-> self, result |-> [kind |-> "Panic", n |-> 0, bytes |-> <<>>]]
        ELSE take_until_loop(
                 [self EXCEPT !.inner = SubSeq(self.inner, count + 1, Len(self.inner)),
                              !.overflow = <<>>, !.overflow_pointer = 0],
                 byte, carry \o SubSeq(self.inner, 1, count))

\* The slice the one inner.read of take_until reads into; empty when the
\* call panics before it.
ReadSlice(self, ml) ==
    Max(0, Max(0, self.chunk_size - ml) - self.overflow_pointer)

InitReader ==
    /\ KeysIdle
    /\ WriterIdle
    /\ SearchIdle
    /\ PathsIdle
    /\ ChunkIdle
    /\ FfiIdle
    /\ FindIdle
    /\ FileIdle
    /\ StreamIdle
    /\ ML \in 1..MaxSentence
    /\ source \in SeqsOf(SourceBytes, 0, MaxSource)
    /\ \E chunk_size \in 1..MaxChunk :
          fixedMemoryReader = FixedMemoryReaderNew(source, chunk_size, ML)
    /\ taken = <<>>
    /\ yielded = [kind |-> "Idle", vec |-> <<>>]

\* One call of take_until(b'\n', &mut buffer), the buffer chunk_size long as
\* in IterFixedMemoryReader::next; nothing is called after a panic.
TakeUntil ==
    /\ fixedMemoryReader # <<>>
    /\ Len(taken) < MaxCalls
    /\ \A i \in 1..Len(taken) : taken[i].kind # "Panic"
    /\ \E count \in ReadCounts(fixedMemoryReader.inner, ReadSlice(fixedMemoryReader, ML)) :
          LET r == take_until(fixedMemoryReader, ML, SEP,
                              fixedMemoryReader.chunk_size, count)
          IN  /\ fixedMemoryReader' = r.self
              /\ taken' = Append(taken, r.result)
    /\ UNCHANGED <<ML, source, yielded, keyVars, writeVars, searchVars, pathVars, chunkVars, ffiVars, findVars, fileVars, streamVars>>

NextReader == TakeUntil

SpecReader == InitReader /\ [][NextReader]_vars

(***************************************************************************)
(* SpecIter: FixedMemoryReader::iter::<SEP>() iterated to its end.         *)
(***************************************************************************)
MaxIterChunk == 4   \* chunk_size and the length of the input are at most this

\* utils::new_buffer(size): size bytes that were never written.  What is
\* read from them is whatever the allocation held: zeroes of a fresh page,
\* or bytes of an earlier chunk.
UninitBytes == {0, 97}
new_buffer(size) == [1..size -> UninitBytes]

\* (bytes_read > 0).then_some(buffer), r being what take_until came to and
\* buffer the Vec it was handed, which it wrote r.bytes to.
then_some(r, buffer) ==
    IF r.kind = "Panic" THEN [kind |-> "Panic", vec |-> <<>>]
    ELSE IF r.n > 0
    THEN [kind |-> "Some", vec |-> r.bytes \o SubSeq(buffer, r.n + 1, Len(buffer))]
    ELSE [kind |-> "None", vec |-> <<>>]

InitIter ==
    /\ KeysIdle
    /\ WriterIdle
    /\ SearchIdle
    /\ PathsIdle
    /\ ChunkIdle
    /\ FfiIdle
    /\ FindIdle
    /\ FileIdle
    /\ StreamIdle
    /\ ML \in 1..MaxSentence
    /\ source \in SeqsOf(SourceBytes, 0, MaxIterChunk)
    /\ \E chunk_size \in 1..MaxIterChunk :
          fixedMemoryReader = FixedMemoryReaderNew(source, chunk_size, ML)
    /\ taken = <<>>
    /\ yielded = [kind |-> "Idle", vec |-> <<>>]

\* What next does with r, the result of its call of take_until.
IterYield(r, buffer) ==
    /\ fixedMemoryReader' = r.self
    /\ taken' = Append(taken, r.result)
    /\ yielded' = then_some(r.result, buffer)

\* IterFixedMemoryReader::<SEP>::next; the for loop over the iterator calls
\* it until it returns None.
IterNext ==
    /\ fixedMemoryReader # <<>>
    /\ yielded.kind \in {"Idle", "Some"}
    /\ \E buffer \in new_buffer(fixedMemoryReader.chunk_size),
          count \in ReadCounts(fixedMemoryReader.inner, ReadSlice(fixedMemoryReader, ML)) :
          IterYield(take_until(fixedMemoryReader, ML, SEP, Len(buffer), count), buffer)
    /\ UNCHANGED <<ML, source, keyVars, writeVars, searchVars, pathVars, chunkVars, ffiVars, findVars, fileVars, streamVars>>

NextIter == IterNext

SpecIter == InitIter /\ [][NextIter]_vars


(***************************************************************************)
(* Index file paths (index_key_path.rs).  A path is the sequence of the    *)
(* characters of its string; the platform is Unix, the separator '/'.      *)
(***************************************************************************)
MaxKeyLength == 3

INDEX_PREFIX == <<115, 117, 98, 115, 101, 116, 95>>   \* "subset_"
INDEX_EXTENSION == <<99, 115, 118>>                    \* "csv"

\* The characters of the keys and file names tried: a letter, '_', '/', '.'
\* and a space.
PathChars == {97, 95, 47, 46, 32}

IsSeparator(c) == c = 47

\* PathBuf::push on Unix: an absolute argument replaces the buffer, otherwise
\* a separator is added unless the buffer is empty or ends with one.
PathBufPush(buf, name) ==
    IF name # <<>> /\ IsSeparator(name[1]) THEN name
    ELSE IF buf # <<>> /\ ~IsSeparator(buf[Len(buf)]) THEN buf \o <<47>> \o name
    ELSE buf \o name

\* The pieces of a path between its separators, empty ones included.
RECURSIVE PathPieces(_)
PathPieces(path) ==
    IF \A i \in 1..Len(path) : ~IsSeparator(path[i]) THEN <<path>>
    ELSE LET i == CHOOSE j \in 1..Len(path) :
                      /\ IsSeparator(path[j])
                      /\ \A h \in 1..(j - 1) : ~IsSeparator(path[h])
         IN  <<SubSeq(path, 1, i - 1)>> \o PathPieces(SubSeq(path, i + 1, Len(path)))

\* Path::components(): repeated and trailing separators and "." are skipped.
Components(path) ==
    SelectSeq(PathPieces(path), LAMBDA piece : piece # <<>> /\ piece # <<46>>)

\* Path::file_name(): the last component when it is a normal one.
file_name(path) ==
    LET cs == Components(path)
    IN  IF cs = <<>> \/ cs[Len(cs)] = <<46, 46>>
        THEN [kind |-> "None"]
        ELSE [kind |-> "Some", name |-> cs[Len(cs)]]

\* format!("{}{}.{}", INDEX_PREFIX, key, INDEX_EXTENSION)
FormatFileName(key) == INDEX_PREFIX \o key \o <<46>> \o INDEX_EXTENSION

\* path_for_key of the build that is shipped (not(test)): Err when dir is not
\* a directory.
path_for_key(key, dir) ==
    IF ~dir.is_dir THEN [kind |-> "Err"]
    ELSE [kind |-> "Ok", path |-> PathBufPush(dir.path, FormatFileName(key))]

\* Regex ^subset_(?P<key>\S+)\.csv$ on name: both ends are anchored and of
\* fixed length, so the only possible capture is what lies between them.
Captures(name) ==
    LET from == Len(INDEX_PREFIX) + 1
        to   == Len(name) - Len(INDEX_EXTENSION) - 1
        key  == SubSeq(name, from, to)
    IN  IF /\ to >= from
           /\ SubSeq(name, 1, Len(INDEX_PREFIX)) = INDEX_PREFIX
           /\ SubSeq(name, to + 1, Len(name)) = <<46>> \o INDEX_EXTENSION
           /\ \A i \in 1..Len(key) : ~is_whitespace(key[i])
        THEN [kind |-> "Some", key |-> key]
        ELSE [kind |-> "None"]

key_for_path_of_whole_path(path) == Captures(path)

key_for_path(path) ==
    LET name == file_name(path)
    IN  IF name.kind = "None" THEN [kind |-> "None"] ELSE Captures(name.name)

PathKeys == SeqsOf(PathChars, 0, MaxKeyLength)

\* Directories: absolute, relative, with a trailing separator, the root and
\* the current directory; each existing or not.
Dirs ==
    { [path |-> p, is_dir |-> b] :
        p \in { <<47, 100>>, <<100>>, <<100, 47>>, <<47>>, <<46>> }, b \in BOOLEAN }

\* File names put together as the tests of key_for_path do: with or without
\* the prefix, the key and the extension, bare or under a directory.
TestPaths ==
    { dir \o pre \o key \o ext :
        dir \in { <<>>, <<100, 47>> },
        pre \in { INDEX_PREFIX, SubSeq(INDEX_PREFIX, 1, 6), <<>> },
        key \in PathKeys,
        ext \in { <<46>> \o INDEX_EXTENSION, INDEX_EXTENSION, <<46, 99, 115>>, <<>> } }

InitPaths ==
    /\ KeysIdle
    /\ WriterIdle
    /\ SearchIdle
    /\ ReaderIdle
    /\ ChunkIdle
    /\ FfiIdle
    /\ FindIdle
    /\ FileIdle
    /\ StreamIdle
    /\ extractedKey = <<>>
    /\ \/ /\ indexKey \in PathKeys
          /\ indexDir \in Dirs
          /\ indexPath = <<>>
       \/ /\ indexKey = <<>>
          /\ indexDir = <<>>
          /\ \E path \in TestPaths : indexPath = [kind |-> "Ok", path |-> path]

PathForKey ==
    /\ indexDir # <<>>
    /\ indexPath = <<>>
    /\ indexPath' = path_for_key(indexKey, indexDir)
    /\ UNCHANGED <<indexKey, indexDir, extractedKey, keyVars, writeVars, searchVars, readerVars, chunkVars, ffiVars, findVars, fileVars, streamVars>>

KeyForPath ==
    /\ indexPath # <<>>
    /\ indexPath.kind = "Ok"
    /\ extractedKey = <<>>
    /\ extractedKey' = key_for_path(indexPath.path)
    /\ UNCHANGED <<indexKey, indexDir, indexPath, keyVars, writeVars, searchVars, readerVars, chunkVars, ffiVars, findVars, fileVars, streamVars>>

NextPaths ==
    \/ PathForKey
    \/ KeyForPath

SpecPaths == InitPaths /\ [][NextPaths]_vars


(***************************************************************************)
(* SpecIndex: process_chunk of the indexer (bin/index.rs) on one chunk,    *)
(* the calls of IndexCollection::add it makes running as in Spec.          *)
(***************************************************************************)
\* A line of n bytes: apas, then s as often as needed.
LineOfLength(n) == [i \in 1..n |-> IF i <= 4 THEN <<97, 112, 97, 115>>[i] ELSE 115]

\* The lines of the chunks: P4s, a line of exactly MAX_LINE_LENGTH bytes, one
\* of MAX_LINE_LENGTH + 1 bytes and the empty line.
IndexLines ==
    { <<80, 52, 115>>, LineOfLength(MAX_LINE_LENGTH), LineOfLength(MAX_LINE_LENGTH + 1), <<>> }

RECURSIVE JoinLines(_)
JoinLines(ls) ==
    IF Len(ls) = 1 THEN ls[1] ELSE ls[1] \o <<10>> \o JoinLines(Tail(ls))

\* The chunks handed to process_chunk: up to MaxAdds lines with '\n' between
\* them; an empty last line is a chunk ending with '\n'.
Chunks == { JoinLines(ls) : ls \in SeqsOf(IndexLines, 1, MaxAdds) }

\* One step of chunk.split(|&byte| byte == b'\n') from pos: the piece up to
\* the next '\n' or to the end, and where the split goes on; past
\* Len(chunk) + 1 the split is finished.
SplitNext(chunk, pos) ==
    LET ends == {i \in pos..Len(chunk) : chunk[i] = 10}
        end  == IF ends = {} THEN Len(chunk) + 1
                ELSE CHOOSE i \in ends : \A j \in ends : i <= j
    IN  [line |-> SubSeq(chunk, pos, end - 1), pos |-> end + 1]

SplitFinished(self) == self.pos > Len(self.chunk) + 1

\* A filter that also leaves out the lines of exactly MAX_LINE_LENGTH bytes.
TooLong_or_equal(line) == Len(line) >= MAX_LINE_LENGTH

\* The filter of process_chunk's filter_map
TooLong(line) == Len(line) > MAX_LINE_LENGTH

InitIndex ==
    /\ KeysIdle
    /\ SearchIdle
    /\ ReaderIdle
    /\ PathsIdle
    /\ FfiIdle
    /\ FindIdle
    /\ FileIdle
    /\ StreamIdle
    /\ dedup \in BOOLEAN
    /\ indices = <<>>
    /\ readers = {}
    /\ disk = <<>>
    /\ alive = "open"
    /\ th = [t \in {1} |-> Idle]
    /\ added = <<>>
    /\ results = <<>>
    /\ returned = {}
    /\ faults = [errors |-> 0, short |-> 0]
    /\ \E chunk \in Chunks :
          processChunk = [chunk |-> chunk, pos |-> 1, warned |-> 0, result |-> None]

\* The iterator chain of process_chunk takes the next line of the split once
\* the for_each closure is through with the one before: a line too long is
\* warned about and left out, any other is handed to collection.add, whose
\* Err is logged by the closure.
ProcessLine ==
    /\ processChunk.result = None
    /\ ~SplitFinished(processChunk)
    /\ th[1].pc = "idle"
    /\ LET next == SplitNext(processChunk.chunk, processChunk.pos)
       IN  \/ /\ TooLong(next.line)
              /\ processChunk' = [processChunk EXCEPT !.pos = next.pos, !.warned = @ + 1]
              /\ UNCHANGED <<keyVars, writeVars, searchVars, readerVars, pathVars, ffiVars, findVars, fileVars, streamVars>>
           \/ /\ ~TooLong(next.line)
              /\ processChunk' = [processChunk EXCEPT !.pos = next.pos]
              /\ add(1, next.line)

\* The split is exhausted: process_chunk returns Ok(()).
ProcessChunkEnd ==
    /\ processChunk.result = None
    /\ SplitFinished(processChunk)
    /\ th[1].pc = "idle"
    /\ processChunk' = [processChunk EXCEPT !.result = "Ok"]
    /\ UNCHANGED <<keyVars, writeVars, searchVars, readerVars, pathVars, ffiVars, findVars, fileVars, streamVars>>

NextIndex ==
    \/ ProcessLine
    \/ ProcessChunkEnd
    \/ \E t \in Threads : AssertIndexExists(t)
    \/ \E t \in Threads : Lookup(t)
    \/ \E t \in Threads : BufferStep(t)

SpecIndex == InitIndex /\ [][NextIndex]_vars


(***************************************************************************)
(* SpecFfi: find_lines_in_index_collection of the FFI crate                *)
(* (crates/parse-ffi/src/lib.rs).  A *const c_char is the null pointer or  *)
(* points to the bytes of a C string.                                      *)
(***************************************************************************)
NullPtr == [null |-> TRUE]
CStrPtr(bytes) == [null |-> FALSE, bytes |-> bytes]

\* "strict", "case-insensitive", "fuzzy"
StrictName == <<115, 116, 114, 105, 99, 116>>
CaseInsensitiveName ==
    <<99, 97, 115, 101, 45, 105, 110, 115, 101, 110, 115, 105, 116, 105, 118, 101>>
FuzzyName == <<102, 117, 122, 122, 121>>

\* The match on search_style_str
SearchStyleOf(name) ==
    CASE name = StrictName          -> "Strict"
      [] name = CaseInsensitiveName -> "CaseInsensitive"
      [] name = FuzzyName           -> "Fuzzy"
      [] OTHER                      -> None

\* The file system the call meets: /ix is an index directory holding
\* subset_pas.csv with the lines pas and Pas, /f is a file, nothing else is.
FfiIndexDir == <<47, 105, 120>>
FfiDisk == [k \in {<<112, 97, 115>>} |-> <<112, 97, 115, 10, 80, 97, 115, 10>>]
is_dir(path) == path = FfiIndexDir

\* The C strings handed in: directories (/ix, /f, /no, bytes that are not
\* UTF-8), queries (pas, as, bytes that are not UTF-8) and names of styles
\* (the three, "Strict", the empty string, bytes that are not UTF-8).
FfiDirs == { FfiIndexDir, <<47, 102>>, <<47, 110, 111>>, <<255>> }
FfiQueries == { <<112, 97, 115>>, <<97, 115>>, <<255>> }
FfiStyles ==
    { StrictName, CaseInsensitiveName, FuzzyName, <<83, 116, 114, 105, 99, 116>>,
      <<>>, <<255>> }

PtrsTo(S) == {NullPtr} \cup {CStrPtr(bytes) : bytes \in S}

\* What the call came to: the pointers it dereferenced, whether the search
\* ran, and what was returned: "null", or the "array" of the lines found;
\* "SIGSEGV" and "hang" when it did not return.
FfiOutcome(deref, searched, kind, lines) ==
    [dereferenced |-> deref, searched |-> searched, returned |-> kind, lines |-> lines]

\* The array of the lines found, when the search returns.
FfiSearched(deref, r) ==
    FfiOutcome(deref, TRUE, IF r.state = "hang" THEN "hang" ELSE "array", r.lines)

\* From `let search_style_c_str` on, search_style pointing to name.
FfiStyleAndSearch(dir, q, name, deref) ==
    IF ~IsUtf8(name) \/ SearchStyleOf(name) = None
    THEN FfiOutcome(deref, FALSE, "null", {})
    ELSE FfiSearched(deref, find_lines_containing(
                      IF is_dir(dir) THEN FfiDisk ELSE <<>>, q, SearchStyleOf(name)))

\* CStr::from_ptr(search_style): reading through a null pointer is undefined
\* behaviour, which ends the process or goes on with whatever bytes are read.
FfiFromStyle(dir, q, search_style, deref) ==
    LET d == deref \cup {"search_style"}
    IN  IF search_style.null
        THEN {FfiOutcome(d, FALSE, "SIGSEGV", {})}
                \cup {FfiStyleAndSearch(dir, q, name, d) : name \in FfiStyles}
        ELSE {FfiStyleAndSearch(dir, q, search_style.bytes, d)}

\* From `let query_c_str` on, query pointing to bytes.
FfiQueryThenStyle(dir, bytes, search_style, deref) ==
    IF ~IsUtf8(bytes) THEN {FfiOutcome(deref, FALSE, "null", {})}
    ELSE FfiFromStyle(dir, bytes, search_style, deref)

\* CStr::from_ptr(query), made without a null check
FfiFromQuery(dir, q, search_style, deref) ==
    LET d == deref \cup {"query"}
    IN  IF q.null
        THEN {FfiOutcome(d, FALSE, "SIGSEGV", {})}
                \cup UNION {FfiQueryThenStyle(dir, bytes, search_style, d) : bytes \in FfiQueries}
        ELSE FfiQueryThenStyle(dir, q.bytes, search_style, d)

\* find_lines_in_index_collection(dir, query, search_style): the outcomes
\* the build can produce.
find_lines_in_index_collection(dir, q, search_style) ==
    IF dir.null THEN {FfiOutcome({}, FALSE, "null", {})}
    ELSE IF ~IsUtf8(dir.bytes) \/ ~is_dir(dir.bytes)
    THEN {FfiOutcome({"dir"}, FALSE, "null", {})}
    ELSE FfiFromQuery(dir.bytes, q, search_style, {"dir"})

InitFfi ==
    /\ KeysIdle
    /\ WriterIdle
    /\ SearchIdle
    /\ ReaderIdle
    /\ PathsIdle
    /\ ChunkIdle
    /\ FindIdle
    /\ FileIdle
    /\ StreamIdle
    /\ \E dir \in PtrsTo(FfiDirs), q \in PtrsTo(FfiQueries), style \in PtrsTo(FfiStyles) :
          ffi = [dir |-> dir, query |-> q, search_style |-> style, outcome |-> <<>>]

FindLinesInIndexCollection ==
    /\ ffi # <<>>
    /\ ffi.outcome = <<>>
    /\ \E o \in find_lines_in_index_collection(ffi.dir, ffi.query, ffi.search_style) :
          ffi' = [ffi EXCEPT !.outcome = o]
    /\ UNCHANGED <<keyVars, writeVars, searchVars, readerVars, pathVars, chunkVars, findVars, fileVars, streamVars>>

NextFfi == FindLinesInIndexCollection

SpecFfi == InitFfi /\ [][NextFfi]_vars


(***************************************************************************)
(* SpecFind: IndexCollection::find_lines_containing with its chunks of     *)
(* shards, shard files that cannot be read and, under the lru feature, its *)
(* cache (search/implementations/index_collection.rs).                     *)
(***************************************************************************)
MaxThreads  == 2    \* rayon::max_num_threads() is between 1 and MaxThreads
MaxSearches == 2    \* calls of find_lines_containing made on one collection

\* config::CACHE_SIZE, the capacity of the LruCache, reduced.
CACHE_SIZE == 1

\* slice::par_chunks(chunk_size): consecutive pieces of chunk_size elements,
\* the last one possibly shorter.
RECURSIVE par_chunks(_, _)
par_chunks(slice, chunk_size) ==
    IF slice = <<>> THEN <<>>
    ELSE LET n == Min(chunk_size, Len(slice))
         IN  <<SubSeq(slice, 1, n)>> \o par_chunks(SubSeq(slice, n + 1, Len(slice)), chunk_size)

\* let chunks_count = usize::max(1, usize::min(index_files.len(), rayon::max_num_threads()))
chunks_count(n, c) == Max(1, Min(n, c))

\* index_files.par_chunks(chunks_count)
ChunksOf(index_files, c) == par_chunks(index_files, chunks_count(Len(index_files), c))

\* IndexFile::find_lines_containing on the shard of key k, iterated: Err when
\* open_for_read fails in LinesScanner::new.
ScanShard(d, cannot_open, k, q, style) ==
    IF k \in cannot_open THEN [kind |-> "Err", items |-> <<>>]
    ELSE [kind |-> "Ok", items |-> LinesScanner(d[k], q, style)]

OkLines(items) == {items[i].line : i \in {j \in 1..Len(items) : items[j].kind = "Ok"}}

\* The try_fold over the shards of one chunk: the ? on find_lines_containing
\* ends it with Err, whatever acc held.
RECURSIVE TryFoldChunk(_, _, _, _, _, _)

\* The closure of the try_fold, r being what the scan of the first shard of
\* chunk came to.
FoldShard(d, cannot_open, chunk, q, style, acc, r) ==
    CASE r.kind = "Err" -> [kind |-> "Err", lines |-> {}]
      [] \E i \in 1..Len(r.items) : r.items[i].kind = "Hang" ->
            [kind |-> "Hang", lines |-> {}]
      [] OTHER -> TryFoldChunk(d, cannot_open, Tail(chunk), q, style,
                               acc \cup OkLines(r.items))

TryFoldChunk(d, cannot_open, chunk, q, style, acc) ==
    IF chunk = <<>> THEN [kind |-> "Ok", lines |-> acc]
    ELSE FoldShard(d, cannot_open, chunk, q, style, acc,
                   ScanShard(d, cannot_open, Head(chunk), q, style))

\* IndexCollection::find_lines_containing from `let index_files` to the
\* reduce: the union of the chunks that came to Ok.
\* .filter_map(|result| result.ok()).reduce(..): the union of the chunks
\* that came to Ok, folded[i] being what the fold of chunks[i] came to.
ReduceChunks(chunks, folded) ==
    [chunks |-> chunks,
     state  |-> IF \E i \in 1..Len(chunks) : folded[i].kind = "Hang"
                THEN "hang" ELSE "returned",
     lines  |-> UNION {folded[i].lines : i \in {j \in 1..Len(chunks) : folded[j].kind = "Ok"}}]

\* The try_fold of every chunk of chunks.
FoldChunks(d, cannot_open, chunks, q, style) ==
    ReduceChunks(chunks,
                 [i \in 1..Len(chunks) |->
                     TryFoldChunk(d, cannot_open, chunks[i], q, style, {})])

find_lines_containing_uncached(d, cannot_open, c, q, style) ==
    FoldChunks(d, cannot_open, ChunksOf(index_files_for(d, q), c), q, style)

\* LruCache::get: the value of key, which becomes the most recently used.
LruGet(entries, key) ==
    LET at == {i \in 1..Len(entries) : entries[i].key = key}
    IN  IF at = {} THEN [hit |-> FALSE, value |-> {}, entries |-> entries]
        ELSE LET i == CHOOSE j \in at : TRUE
             IN  [hit |-> TRUE, value |-> entries[i].value,
                  entries |-> <<entries[i]>> \o SelectSeq(entries, LAMBDA e : e.key # key)]

\* LruCache::put: key becomes the most recently used; the least recently
\* used entry goes when the capacity is exceeded.
LruPut(entries, key, value) ==
    LET all == <<[key |-> key, value |-> value]>> \o SelectSeq(entries, LAMBDA e : e.key # key)
    IN  SubSeq(all, 1, Min(Len(all), CACHE_SIZE))

\* The key of the cache: cache.get(query), cache.put(query.to_owned(), ..)
CacheKey(q, style) == q

FindApa == <<97, 112, 97>>
FindPas == <<112, 97, 115>>

\* The shard files: empty, or holding apas, Apas or both.
FindFiles ==
    { <<>>, FileOf(<<FindApa \o <<115>>>>), FileOf(<<<<65, 112, 97, 115>>>>),
      FileOf(<<FindApa \o <<115>>, <<65, 112, 97, 115>>>>) }

\* The directories: any of subset_apa.csv and subset_pas.csv
FindDisks ==
    UNION { [K -> FindFiles] : K \in SUBSET {FindApa, FindPas} }

\* The queries: apas (keys apa and pas) and pas (key pas)
FindQueries == { FindApa \o <<115>>, FindPas }

InitFind ==
    /\ KeysIdle
    /\ SearchIdle
    /\ ReaderIdle
    /\ PathsIdle
    /\ ChunkIdle
    /\ FfiIdle
    /\ FileIdle
    /\ StreamIdle
    /\ dedup = FALSE
    /\ indices = <<>>
    /\ readers = {}
    /\ disk \in FindDisks
    /\ alive = "open"
    /\ th = <<>>
    /\ added = <<>>
    /\ results = <<>>
    /\ returned = {}
    /\ faults = [errors |-> 0, short |-> 0]
    /\ lru \in BOOLEAN
    /\ cache = <<>>
    /\ max_num_threads \in 1..MaxThreads
    /\ unreadable \in {{}} \cup {{k} : k \in DOMAIN disk}
    /\ searches = <<>>

\* What find_lines_containing does with got, the answer of the cache, and
\* r, the result of the search, which is made only when the cache misses.
FindReturn(q, style, got, r) ==
    IF lru /\ got.hit
    THEN /\ cache' = got.entries
         /\ searches' = Append(searches,
               [query |-> q, style |-> style, hit |-> TRUE, chunks |-> <<>>,
                state |-> "returned", lines |-> got.value])
    ELSE /\ cache' = IF lru /\ r.state = "returned"
                     THEN LruPut(cache, CacheKey(q, style), r.lines) ELSE cache
         /\ searches' = Append(searches,
               [query |-> q, style |-> style, hit |-> FALSE, chunks |-> r.chunks,
                state |-> r.state, lines |-> r.lines])

\* One call of IndexCollection::find_lines_containing(q, style) on the
\* collection, from the look into the cache to the return.
FindLinesContaining(q, style) ==
    /\ max_num_threads > 0
    /\ Len(searches) < MaxSearches
    /\ \A i \in 1..Len(searches) : searches[i].state # "hang"
    /\ FindReturn(q, style, LruGet(cache, CacheKey(q, style)),
                  find_lines_containing_uncached(disk, unreadable, max_num_threads, q, style))
    /\ UNCHANGED <<lru, max_num_threads, unreadable>>
    /\ UNCHANGED <<keyVars, writeVars, searchVars, readerVars, pathVars, chunkVars, ffiVars, fileVars, streamVars>>

NextFind == \E q \in FindQueries, style \in Styles : FindLinesContaining(q, style)

SpecFind == InitFind /\ [][NextFind]_vars


(***************************************************************************)
(* SpecFile: one IndexFile<MAX_BUFFER> on which add, flush and dispose are *)
(* called one after the other (models/index_file.rs).                      *)
(***************************************************************************)
MaxOps == 4     \* calls made on the IndexFile in one behaviour

\* The key of the IndexFile: pas
FileKey == <<112, 97, 115>>

\* The items added: a, as, one that with its newline fills the buffer
\* exactly and one that is a byte longer.
FileItems ==
    { <<97>>, <<97, 115>>, LineOfLength(MAX_BUFFER - 1), LineOfLength(MAX_BUFFER) }

InitFile ==
    /\ KeysIdle
    /\ SearchIdle
    /\ ReaderIdle
    /\ PathsIdle
    /\ ChunkIdle
    /\ FfiIdle
    /\ FindIdle
    /\ StreamIdle
    /\ dedup \in BOOLEAN
    /\ indices = [k \in {FileKey} |-> IndexFileNew]
    /\ readers = {}
    /\ disk = <<>>
    /\ alive = "open"
    /\ th = <<>>
    /\ added = <<>>
    /\ results = <<>>
    /\ returned = {}
    /\ faults = [errors |-> 0, short |-> 0]
    /\ fileOps = <<>>

FileOp(op, item, result) == [op |-> op, item |-> item, result |-> result]

\* IndexFile::add(item)
FileAdd(item) ==
    /\ FileKey \in DOMAIN indices
    /\ Len(fileOps) < MaxOps
    /\ LET file == indices[FileKey]
           cs   == contains_or_set(file, item)
       IN  IF dedup /\ cs.contained
           THEN /\ fileOps' = Append(fileOps, FileOp("add", item, "false"))
                /\ UNCHANGED <<indices, disk, faults>>
           ELSE \E o \in FlushChoices(file.buffer, BufferFull(file.buffer, item), faults) :
                  LET r == add_buffered(disk, FileKey, file.buffer, item, o)
                  IN  /\ disk' = r.disk
                      /\ indices' = [indices EXCEPT ![FileKey] =
                                        [buffer |-> r.buffer,
                                         seen   |-> IF dedup THEN cs.seen ELSE file.seen]]
                      /\ faults' = Charge(faults, o, file.buffer, BufferFull(file.buffer, item))
                      /\ fileOps' = Append(fileOps,
                            FileOp("add", item, IF r.result = "Err" THEN "Err" ELSE "true"))
    /\ UNCHANGED <<dedup, readers, alive, th, added, results, returned>>
    /\ UNCHANGED <<keyVars, searchVars, readerVars, pathVars, chunkVars, ffiVars, findVars, streamVars>>

\* IndexFile::flush()
FileFlush ==
    /\ FileKey \in DOMAIN indices
    /\ Len(fileOps) < MaxOps
    /\ LET buffer == indices[FileKey].buffer
       IN  \E o \in FlushChoices(buffer, TRUE, faults) :
             LET r == flush_buffer(disk, FileKey, buffer, o)
             IN  /\ disk' = r.disk
                 /\ indices' = [indices EXCEPT ![FileKey].buffer = r.buffer]
                 /\ faults' = Charge(faults, o, buffer, TRUE)
                 /\ fileOps' = Append(fileOps, FileOp("flush", <<>>, r.result))
    /\ UNCHANGED <<dedup, readers, alive, th, added, results, returned>>
    /\ UNCHANGED <<keyVars, searchVars, readerVars, pathVars, chunkVars, ffiVars, findVars, streamVars>>

\* A dispose that also empties the buffer.
dispose_clearing_buffer(d, file, key, removed) ==
    IF key \in DOMAIN d
    THEN [disk |-> Remove(d, key), file |-> [file EXCEPT !.buffer = <<>>], result |-> "Ok"]
    ELSE [disk |-> d, file |-> file, result |-> "Ok"]

\* IndexFile::dispose on the file of key in directory d, which exists since
\* IndexFile::new; removed tells whether fs::remove_file went well.
dispose(d, file, key, removed) ==
    IF key \in DOMAIN d
    THEN IF removed THEN [disk |-> Remove(d, key), file |-> file, result |-> "Ok"]
         ELSE [disk |-> d, file |-> file, result |-> "Err"]
    ELSE [disk |-> d, file |-> file, result |-> "Ok"]

\* IndexFile::dispose()
FileDispose ==
    /\ FileKey \in DOMAIN indices
    /\ Len(fileOps) < MaxOps
    /\ \E removed \in BOOLEAN :
          /\ ~removed => (FileKey \in DOMAIN disk /\ FaultsLeft(faults) > 0)
          /\ LET r == dispose(disk, indices[FileKey], FileKey, removed)
             IN  /\ disk' = r.disk
                 /\ indices' = [indices EXCEPT ![FileKey] = r.file]
                 /\ faults' = IF removed THEN faults ELSE [faults EXCEPT !.errors = @ + 1]
                 /\ fileOps' = Append(fileOps, FileOp("dispose", <<>>, r.result))
    /\ UNCHANGED <<dedup, readers, alive, th, added, results, returned>>
    /\ UNCHANGED <<keyVars, searchVars, readerVars, pathVars, chunkVars, ffiVars, findVars, streamVars>>

NextFile ==
    \/ \E item \in FileItems : FileAdd(item)
    \/ FileFlush
    \/ FileDispose

SpecFile == InitFile /\ [][NextFile]_vars


(***************************************************************************)
(* SpecStream: the reader SearchStyle::transform_reader makes of a file,   *)
(* read to its end one call of read at a time (search_style.rs,            *)
(* manipulated_reader.rs).                                                 *)
(***************************************************************************)
MaxStream == 3    \* a file read has at most MaxStream bytes
MaxBufLen == 3    \* the caller's buffer has between 1 and MaxBufLen bytes

\* The bytes of the files: P, $, the two bytes of e-acute, l, and a byte no
\* UTF-8 text contains.
StreamBytes == {80, 36, 195, 169, 108, 255}

StreamFiles == UNION {[1..n -> StreamBytes] : n \in 0..MaxStream}

\* A read that reports the length of the caller's buffer, whatever was copied.
ReadResult_of_buffer_length(inner_buf, buf_len, manipulated) ==
    IF Len(manipulated) > buf_len
    THEN [inner_buf |-> inner_buf, panicked |-> TRUE, returned |-> 0, buf |-> <<>>]
    ELSE [inner_buf |-> inner_buf, panicked |-> FALSE, returned |-> buf_len,
          buf |-> manipulated]

\* buf[..manipulated.len()].copy_from_slice(&manipulated); Ok(manipulated.len())
\* The slice panics when manipulated is longer than buf.  inner_buf is
\* &inner_buf[..bytes_read], the bytes the file handed out.
ReadResult(inner_buf, buf_len, manipulated) ==
    IF Len(manipulated) > buf_len
    THEN [inner_buf |-> inner_buf, panicked |-> TRUE, returned |-> 0, buf |-> <<>>]
    ELSE [inner_buf |-> inner_buf, panicked |-> FALSE, returned |-> Len(manipulated),
          buf |-> manipulated]

\* Read::read of the reader made by transform_reader(style), with a buffer
\* of buf_len bytes, when the read of the file hands out its next bytes_read
\* bytes.  Under Strict the reader is the file itself.
ManipulatedReaderRead(style, inner, buf_len, bytes_read) ==
    ReadResult(SubSeq(inner, 1, bytes_read), buf_len,
               transform_reader(style, SubSeq(inner, 1, bytes_read)))

\* File::read into a buffer of buf_len bytes: some bytes, at most buf_len,
\* while there are any, and 0 at the end of the file.
InnerReads(inner, buf_len) ==
    IF inner = <<>> THEN {0} ELSE 1..Min(buf_len, Len(inner))

InitStream ==
    /\ KeysIdle
    /\ WriterIdle
    /\ SearchIdle
    /\ ReaderIdle
    /\ PathsIdle
    /\ ChunkIdle
    /\ FfiIdle
    /\ FindIdle
    /\ FileIdle
    /\ \E style \in Styles, file \in StreamFiles :
          stream = [style |-> style, inner |-> file, reads |-> <<>>]

\* One call of read on the transformed reader; none follows a panic or the
\* read that returned 0.
StreamRead(buf_len, bytes_read) ==
    /\ stream # <<>>
    /\ stream.reads # <<>> => stream.reads[Len(stream.reads)].returned > 0
    /\ bytes_read \in InnerReads(stream.inner, buf_len)
    /\ stream' = [stream EXCEPT
                    !.inner = SubSeq(@, bytes_read + 1, Len(@)),
                    !.reads = Append(@, ManipulatedReaderRead(stream.style, stream.inner,
                                                              buf_len, bytes_read))]
    /\ UNCHANGED <<keyVars, writeVars, searchVars, readerVars, pathVars, chunkVars, ffiVars, findVars, fileVars>>

NextStream == \E buf_len \in 1..MaxBufLen, bytes_read \in 0..MaxBufLen : StreamRead(buf_len, bytes_read)

SpecStream == InitStream /\ [][NextStream]_vars


(***************************************************************************)
(* Properties of the key derivation (SpecKeys).                            *)
(***************************************************************************)
\* The candidates of the two sources, before any deduplication.
PositionalCandidates(L, D, item) ==
    LET n == IF Len(item) < L THEN 0 ELSE Min(D, Len(item) - L + 1)
    IN  [i \in 1..n |-> Slice(item, i - 1, i - 1 + L)]

CommonWordCandidates(L, item) ==
    SeqMap(LAMBDA m : Slice(item, m.start, m.end),
           find_iter(init_automaton(L), AsBytes(item)))

\* s with every element that occurred earlier removed.
RECURSIVE DedupFrom(_, _)
DedupFrom(s, earlier) ==
    IF s = <<>> THEN <<>>
    ELSE IF Head(s) \in earlier THEN DedupFrom(Tail(s), earlier)
    ELSE <<Head(s)>> \o DedupFrom(Tail(s), earlier \cup {Head(s)})

Dedup(s) == DedupFrom(s, {})

HasRepeat(s) == \E i, j \in 1..Len(s) : i # j /\ s[i] = s[j]

IsPrefix(s, t) == Len(s) <= Len(t) /\ s = SubSeq(t, 1, Len(s))

IsKeyChar(c) == (c >= 97 /\ c <= 122) \/ (c >= 48 /\ c <= 57)

\* C5: the keys yielded by indices_of::<L, D> never contain a key twice.
C5_NoDuplicateKeys == ~HasRepeat(keys)

\* A finished iteration in which a key repeats among the positional
\* candidates, among the common-word candidates and between the two.
C5_Witness ==
    LET pos == PositionalCandidates(genLength, genDepth, indexOf.item)
        com == CommonWordCandidates(genLength, indexOf.item)
    IN  /\ ended
        /\ keys # <<>>
        /\ HasRepeat(pos)
        /\ HasRepeat(com)
        /\ Range(pos) \cap Range(com) # {}

\* C6: the keys come out as the positional keys item[i..i+L], i increasing
\* while i < D and i+L <= len(item), followed by the common-word keys in
\* match order, every key already yielded being skipped; so at any moment the
\* keys yielded are a prefix of that list and at the end they are that list.
C6_PositionalThenCommon ==
    LET expected == Dedup(PositionalCandidates(genLength, genDepth, indexOf.item)
                          \o CommonWordCandidates(genLength, indexOf.item))
    IN  /\ IsPrefix(keys, expected)
        /\ ended => keys = expected

\* A finished iteration that yielded several positional keys, then a
\* common-word key, and skipped a common-word candidate already yielded.
C6_Witness ==
    LET pos == Dedup(PositionalCandidates(genLength, genDepth, indexOf.item))
        com == CommonWordCandidates(genLength, indexOf.item)
    IN  /\ ended
        /\ Len(pos) >= 2
        /\ Len(keys) > Len(pos)
        /\ Range(com) \cap Range(pos) # {}

\* C7: every key has exactly L characters, each a lower-case ASCII letter or
\* an ASCII digit.
C7_KeyShape ==
    \A i \in 1..Len(keys) :
        /\ Len(keys[i]) = genLength
        /\ \A c \in Range(keys[i]) : IsKeyChar(c)

\* A finished iteration that yielded keys from an input holding an upper-case
\* letter with a diacritic, a CJK ideograph (the marker 1 is in a key) and
\* something that is dropped.
C7_Witness ==
    /\ ended
    /\ keys # <<>>
    /\ 195 \in Range(input)
    /\ 229 \in Range(input)
    /\ \E i \in 1..Len(keys) : 49 \in Range(keys[i])
    /\ Len(indexOf.item) < Len(FromUtf8Lossy(input))

(***************************************************************************)
(* Properties of the writer (Spec).                                        *)
(***************************************************************************)
\* The pieces of bs between its newlines; what follows the last newline
\* counts as a line when it is not empty.
RECURSIVE SplitLines(_)
SplitLines(bs) ==
    IF bs = <<>> THEN <<>>
    ELSE LET nl == {i \in 1..Len(bs) : bs[i] = 10}
             i  == IF nl = {} THEN Len(bs) + 1 ELSE CHOOSE j \in nl : \A m \in nl : j <= m
         IN  <<SubSeq(bs, 1, i - 1)>> \o SplitLines(SubSeq(bs, i + 1, Len(bs)))

EndsWithNewline(bs) == bs # <<>> /\ bs[Len(bs)] = 10

\* The keys of each line that can be added, as a table.
KeysOf == [line \in AddLines |-> Range(indices_of(INDEX_LENGTH, INDEX_DEPTH, line))]

KeysOfLine(line) == KeysOf[line]

\* The calls of add whose line goes to the shard of key k.
CallsFor(k) == {i \in 1..Len(added) : k \in KeysOfLine(added[i])}

NoIoError == faults.errors = 0 /\ \A i \in 1..Len(results) : results[i] # "Err"

\* C1: once the collection has been destroyed after any calls of add, with
\* no I/O error, every key of every added line has its file, and the file
\* contains a line equal to the added line.
C1_AddedLinesAreInTheirShards ==
    (alive = "dropped" /\ NoIoError) =>
        \A i \in 1..Len(added) : \A k \in KeysOfLine(added[i]) :
            /\ k \in DOMAIN disk
            /\ added[i] \in Range(SplitLines(disk[k]))

\* The same with every write having taken the whole buffer.
C1_WithFullWrites == faults.short = 0 => C1_AddedLinesAreInTheirShards

\* C9: in every reachable state a shard file that exists and holds anything
\* ends with a newline: no flush left it in the middle of a line.
C9_FilesEndWithNewline ==
    \A k \in DOMAIN disk : disk[k] # <<>> => EndsWithNewline(disk[k])

\* The same with every write having taken the whole buffer.
C9_WithFullWrites == faults.short = 0 => C9_FilesEndWithNewline

\* C10: when several calls of add went to one IndexFile, their lines
\* pairwise distinct, and the IndexFile has been dropped, with no I/O error,
\* its file holds exactly those lines, each once, each whole and ended by a
\* newline.
C10_FileHoldsExactlyTheLines ==
    (alive = "dropped" /\ NoIoError /\ ~HasRepeat(added)) =>
        \A k \in AddKeys :
            (\E i, j \in CallsFor(k) : i # j) =>
                LET file == IF k \in DOMAIN disk THEN disk[k] ELSE <<>>
                    held == SplitLines(file)
                IN  /\ EndsWithNewline(file)
                    /\ ~HasRepeat(held)
                    /\ Range(held) = {added[i] : i \in CallsFor(k)}

\* The same with every write having taken the whole buffer.
C10_WithFullWrites == faults.short = 0 => C10_FileHoldsExactlyTheLines

\* Two calls that ran on one shard at the same time, for C10_WithFullWrites.
C10_Concurrent ==
    \E t, u \in DOMAIN th :
        /\ t # u
        /\ th[t].pc = "buffer"
        /\ th[u].pc \in {"lookup", "buffer"}
        /\ th[t].key = th[u].key
        /\ th[t].item # th[u].item

Short(line) == Len(Cleaned(line)) < INDEX_LENGTH

\* Inputs whose normalised item is shorter than INDEX_LENGTH: the empty
\* input, "!?", "as", " a", "a-s" and e-acute alone.
ShortInputs ==
    { <<>>, <<33, 63>>, <<97, 115>>, <<32, 97>>, <<97, 45, 115>>, <<195, 169>> }

\* Whether the normalised item is short, for the lines and queries of Spec.
IsShortLine == [line \in AddLines \cup WriterQueries |-> Short(line)]

ShortInputsHaveNoKey ==
    \A line \in ShortInputs \cup AddLines \cup WriterQueries :
        Short(line) => indices_of(INDEX_LENGTH, INDEX_DEPTH, line) = <<>>

\* C8: an input whose normalised item is shorter than LENGTH has no key at
\* all; a call of add with such a line returns Ok at once and no shard is
\* created or written on its account; a search for such a query returns the
\* empty set.
C8_ShortItemHasNoKey ==
    /\ ShortInputsHaveNoKey
    /\ \A i \in 1..Len(added) : IsShortLine[added[i]] => results[i] = "Ok"
    /\ \A t \in DOMAIN th : th[t].pc # "idle" => ~IsShortLine[th[t].item]
    /\ \A k \in DOMAIN indices \cup DOMAIN disk :
          \E i \in 1..Len(added) : ~IsShortLine[added[i]] /\ k \in KeysOfLine(added[i])
    /\ \A s \in Styles :
          (found[s].state # "none" /\ IsShortLine[query]) =>
              found[s] = [state |-> "returned", lines |-> {}]

\* A short line was added next to a longer one that contains it, and the
\* search for the short line, over a directory with a file that holds it as
\* a substring, has returned.
C8_Witness ==
    /\ alive \in {"dropped", "panicked"}
    /\ \E i \in 1..Len(added) : IsShortLine[added[i]]
    /\ query # <<>>
    /\ IsShortLine[query]
    /\ \E s \in Styles : found[s].state = "returned"
    /\ \E k \in DOMAIN disk : \E i \in 1..Len(disk[k]) - Len(query) + 1 :
          SubSeq(disk[k], i, i + Len(query) - 1) = query

(***************************************************************************)
(* Properties of the search (SpecSearch).                                  *)
(***************************************************************************)
Contains(hay, needle) ==
    \E i \in 0..(Len(hay) - Len(needle)) : Slice(hay, i, i + Len(needle)) = needle

IsAscii(bs) == \A i \in 1..Len(bs) : bs[i] < 128

\* A line as a reader that strips trailing white space hands it out.
Trimmed(line) == AsBytes(trim_end(FromUtf8Lossy(line)))

Yielded(items) == {items[i].line : i \in {j \in 1..Len(items) : items[j].kind = "Ok"}}

ShardLines == SplitLines(disk[ShardKey])

LinesWithinLimit == \A i \in 1..Len(ShardLines) : Len(ShardLines[i]) <= MAX_LINE_LENGTH

\* C2: over a shard file whose lines are at most MAX_LINE_LENGTH bytes, the
\* Strict scan for the query yields, as a set, exactly the lines of the file
\* that contain the query.  Lines are compared without their trailing white
\* space, which line_of_range strips from what it yields.
C2_StrictYieldsMatchingLines ==
    (scanned["Strict"].state = "done" /\ LinesWithinLimit) =>
        Yielded(scanned["Strict"].items)
            = {Trimmed(l) : l \in {m \in Range(ShardLines) : Contains(m, query)}}

\* C3: the CaseInsensitive and the Fuzzy scan yield every line whose
\* transformed form contains the transformed query, and what they yield are
\* lines of the file as stored (up to the trailing white space stripped).
C3_TransformedScanYieldsStoredLines ==
    \A s \in {"CaseInsensitive", "Fuzzy"} :
        (scanned[s].state = "done" /\ LinesWithinLimit) =>
            /\ \A l \in Range(ShardLines) :
                  Contains(transform_reader(s, l), transform_query(s, query))
                      => Trimmed(l) \in Yielded(scanned[s].items)
            /\ Yielded(scanned[s].items) \subseteq {Trimmed(l) : l \in Range(ShardLines)}

AllSearched == \A s \in Styles : found[s].state = "returned"

StrictInCaseInsensitiveInFuzzy ==
    /\ found["Strict"].lines \subseteq found["CaseInsensitive"].lines
    /\ found["CaseInsensitive"].lines \subseteq found["Fuzzy"].lines

Sequential == Len(th) = 1

\* The content of the file of key k, empty when there is no file.
FileOrEmpty(k) == IF k \in DOMAIN disk THEN disk[k] ELSE <<>>

\* The lines the IndexFile of key k accepted when the calls of add followed
\* one another without error, in the order of the calls: every line whose
\* keys include k, and under dedup only its first occurrence.
AcceptedInOrder(k) ==
    LET sent == SelectSeq(added, LAMBDA line : k \in KeysOfLine(line))
    IN  IF dedup THEN Dedup(sent) ELSE sent

\* C11: after sequential calls of add followed by the drop, with no I/O
\* error, the lines of each shard file are the lines its IndexFile accepted,
\* in the order of the calls that accepted them, however many flushes
\* happened in between.
C11_LinesInOrderOfAdds ==
    (Sequential /\ alive = "dropped" /\ NoIoError) =>
        \A k \in AddKeys : SplitLines(FileOrEmpty(k)) = AcceptedInOrder(k)

\* The same with every write having taken the whole buffer.
C11_WithFullWrites == faults.short = 0 => C11_LinesInOrderOfAdds

\* Sequential calls put two different lines into one shard, the second one
\* after a flush in the middle, and the collection has been dropped.
C11_FlushedInBetween ==
    /\ Sequential
    /\ alive = "dropped"
    /\ NoIoError
    /\ faults.short = 0
    /\ \E k \in AddKeys :
          /\ Len(AcceptedInOrder(k)) >= 2
          /\ AcceptedInOrder(k)[1] # AcceptedInOrder(k)[2]


\* What the calls of IndexFile::add with line on the IndexFile of key k have
\* returned so far.
AddsOf(k, line) ==
    {r \in returned : r.key = k /\ added[r.call] = line /\ r.value # "NewErr"}

\* A call of IndexFile::add with line on the IndexFile of k is past
\* contains_or_set and has not returned.
Buffering(k, line) ==
    \E t \in DOMAIN th : th[t].pc = "buffer" /\ th[t].key = k /\ th[t].item = line

\* How many times line is a line of the buffer or of the file of key k.
Occurrences(k, line) ==
    LET buffer == IF k \in DOMAIN indices THEN indices[k].buffer ELSE <<>>
        held   == SplitLines(FileOrEmpty(k)) \o SplitLines(buffer)
    IN  Cardinality({i \in 1..Len(held) : held[i] = line})

\* C12: with dedup, under any sequence or interleaving of calls, for each
\* IndexFile and each line at most one add has returned true; when an add
\* has returned false, another has returned true (or is about to: it is past
\* contains_or_set and holds the line); and the line is at most once in
\* buffer plus file.
C12_DedupAcceptsOnce ==
    dedup =>
        \A k \in AddKeys, line \in AddLines :
            LET trues  == {r \in AddsOf(k, line) : r.value = "true"}
                falses == {r \in AddsOf(k, line) : r.value = "false"}
            IN  /\ Cardinality(trues) <= 1
                /\ falses # {} => (Cardinality(trues) = 1 \/ Buffering(k, line))
                /\ Occurrences(k, line) <= 1

\* The same as long as no open, write or create_dir_all has failed.
C12_WithoutIoErrors == faults.errors = 0 => C12_DedupAcceptsOnce

\* With dedup, one line was added twice to one IndexFile by calls that ran at
\* the same time: one returned true, the other false, and the collection has
\* been dropped.
C12_AddedTwice ==
    /\ dedup
    /\ alive = "dropped"
    /\ faults.errors = 0
    /\ ~Sequential
    /\ \E k \in AddKeys, line \in AddLines :
          /\ \E r \in AddsOf(k, line) : r.value = "true"
          /\ \E r \in AddsOf(k, line) : r.value = "false"
          /\ Occurrences(k, line) = 1


\* C13: while the collection is in use, under any interleaving of the calls
\* of add, an IndexFile that is in the map stays in it and is the same
\* IndexFile: its seen-set only grows and its buffer changes only by a call
\* of IndexFile::add on that key; and a thread that is past
\* assert_index_exists finds its key in the map.
C13_OneIndexFilePerKey ==
    [][alive = "open" =>
          /\ \A k \in DOMAIN indices :
                /\ k \in DOMAIN indices'
                /\ indices[k].seen \subseteq indices'[k].seen
                /\ \/ indices'[k].buffer = indices[k].buffer
                   \/ \E t \in DOMAIN th :
                         th[t].pc = "buffer" /\ th[t].key = k /\ th'[t] # th[t]
          /\ \A t \in DOMAIN th :
                th'[t].pc \in {"lookup", "buffer"} => th'[t].key \in DOMAIN indices']_vars

\* With two workers, a thread is past assert_index_exists for a key whose
\* IndexFile another call created and which holds a buffered line of that
\* other call.
C13_Witness ==
    /\ ~Sequential
    /\ \E t \in DOMAIN th :
          /\ th[t].pc = "lookup"
          /\ th[t].key \in DOMAIN indices
          /\ indices[th[t].key].buffer # <<>>
          /\ \E u \in DOMAIN th : u # t /\ th[u].pc # "idle" /\ th[u].key = th[t].key

\* C14: once the collection has been destroyed, with no I/O error, every
\* IndexFile has been flushed and is gone: every line an IndexFile accepted
\* is a line of that shard's file and nothing is left in memory.
C14_AllFlushedAtDestruction ==
    (alive = "dropped" /\ NoIoError) =>
        /\ DOMAIN indices = {}
        /\ \A r \in returned :
              r.value = "true" => added[r.call] \in Range(SplitLines(FileOrEmpty(r.key)))

\* The same with every write having taken the whole buffer.
C14_WithFullWrites == faults.short = 0 => C14_AllFlushedAtDestruction

\* The collection was destroyed while two IndexFiles held lines in memory.
C14_TwoShardsFlushed ==
    /\ alive = "dropped"
    /\ NoIoError
    /\ faults.short = 0
    /\ \E r1, r2 \in returned : r1.value = "true" /\ r2.value = "true" /\ r1.key # r2.key

\* C15: when a call of IndexCollection::add has returned an error, the
\* line was still handed to the IndexFile of every other key of the line:
\* every key of the line was tried, and only the failing one came to an error.
C15_ErrorDoesNotAbortSiblings ==
    \A i \in 1..Len(added) :
        results[i] = "Err" =>
            /\ \A k \in KeysOfLine(added[i]) : \E r \in returned : r.call = i /\ r.key = k
            /\ \E r \in returned : r.call = i /\ r.value \in {"Err", "NewErr"}

\* The directory that sequential calls of add with the lines of added leave
\* behind when every write is a full one: per key that accepted a line, the
\* accepted lines in order, each ended by a newline.
ExpectedDirectory ==
    [k \in {x \in AddKeys : AcceptedInOrder(x) # <<>>} |-> FileOf(AcceptedInOrder(k))]

SentencesFit ==
    LET lines == SplitLines(source)
        terminated(i) == i < Len(lines) \/ source[Len(source)] = SEP
    IN  \A i \in 1..Len(lines) :
            Len(lines[i]) + (IF terminated(i) THEN 1 ELSE 0) <= ML

\* The bytes handed out by the first i calls, one chunk after the other.
RECURSIVE TakenUpTo(_)
TakenUpTo(i) == IF i = 0 THEN <<>> ELSE TakenUpTo(i - 1) \o taken[i].bytes

EndsLine(bs) == bs = <<>> \/ bs[Len(bs)] = SEP

\* The call i returned a count other than 0.
TookSome(i) == taken[i].kind = "Ok" /\ taken[i].n > 0

\* C16: when every line of the input, separator included, is at most ML
\* bytes and ML <= chunk_size, every count n other than 0 that take_until
\* returns is at most chunk_size, buffer[..n] ends with the separator or at
\* the end of the input, and it starts where a line starts.
C16_ChunksHoldWholeLines ==
    (SentencesFit /\ ML <= fixedMemoryReader.chunk_size) =>
        \A i \in 1..Len(taken) :
            TookSome(i) =>
                /\ taken[i].n <= fixedMemoryReader.chunk_size
                /\ EndsLine(taken[i].bytes) \/ TakenUpTo(i) = source
                /\ EndsLine(TakenUpTo(i - 1))

\* An input of three lines with something in them, the last one without a
\* separator, came out in two chunks: the first ends with a separator, the
\* second begins with the line carried over and ends where the input ends.
C16_Witness ==
    /\ SentencesFit
    /\ ML <= fixedMemoryReader.chunk_size
    /\ {97, 98} \subseteq Range(source)
    /\ Len(SplitLines(source)) >= 3
    /\ Len(taken) >= 2
    /\ TookSome(1) /\ TookSome(2)
    /\ taken[1].bytes[taken[1].n] = SEP
    /\ taken[2].bytes[taken[2].n] # SEP
    /\ TakenUpTo(2) = source

\* The index of the first call that returned 0, or 0 when none has.
FirstZero ==
    LET zeros == {i \in 1..Len(taken) : taken[i].kind = "Ok" /\ taken[i].n = 0}
    IN  IF zeros = {} THEN 0 ELSE CHOOSE i \in zeros : \A j \in zeros : i <= j

\* What the calls up to the first 0 handed out reproduces the input: no call
\* panics, the chunks so far are a prefix of the input, and at the first 0
\* they are the whole of it.
Reproduces ==
    /\ \A i \in 1..Len(taken) : taken[i].kind = "Ok"
    /\ FirstZero = 0 => IsPrefix(TakenUpTo(Len(taken)), source)
    /\ FirstZero # 0 => TakenUpTo(FirstZero) = source

\* C17 as stated: with lines of at most ML bytes and ML <= chunk_size, the
\* chunks of the calls up to the first 0, one after the other, are the input
\* byte for byte.
C17_AsStated ==
    (SentencesFit /\ ML <= fixedMemoryReader.chunk_size) => Reproduces

\* C17: the same when chunk_size is at least twice ML, so that the slice
\* buffer[read..chunk_size - ML] has room after any line carried over.
C17_ChunksReproduceInput ==
    (SentencesFit /\ 2 * ML <= fixedMemoryReader.chunk_size) => Reproduces

\* An input of several lines came out whole in several chunks.
C17_Witness ==
    /\ SentencesFit
    /\ 2 * ML <= fixedMemoryReader.chunk_size
    /\ {97, 98} \subseteq Range(source)
    /\ Len(SplitLines(source)) >= 2
    /\ FirstZero >= 3
    /\ TakenUpTo(FirstZero) = source

\* Nothing is left to hand out: the input is exhausted and nothing is
\* carried over.
Exhausted == fixedMemoryReader.inner = <<>> /\ fixedMemoryReader.overflow_pointer = 0

\* C18: a call of take_until made when the input is exhausted and nothing is
\* carried over returns 0 and leaves the reader in that state, so every
\* later call returns 0 as well.
C18_ZeroAtEndOfInput ==
    [][(Exhausted /\ taken' # taken) =>
          /\ taken'[Len(taken')].kind = "Ok"
          /\ taken'[Len(taken')].n = 0
          /\ Exhausted']_vars

\* After chunks were handed out, two calls in a row returned 0.
C18_Witness ==
    /\ Len(taken) >= 3
    /\ 97 \in Range(source)
    /\ TookSome(1)
    /\ taken[Len(taken)].kind = "Ok" /\ taken[Len(taken)].n = 0
    /\ taken[Len(taken) - 1].kind = "Ok" /\ taken[Len(taken) - 1].n = 0


(***************************************************************************)
(* Properties of the index file paths (SpecPaths).                         *)
(***************************************************************************)
NoWhitespace(key) == \A i \in 1..Len(key) : ~is_whitespace(key[i])

NoSeparator(key) == \A i \in 1..Len(key) : ~IsSeparator(key[i])

\* path_for_key was called with an existing directory, and key_for_path on
\* what it returned.
RoundTripMade ==
    /\ indexDir # <<>>
    /\ indexDir.is_dir
    /\ indexPath # <<>>
    /\ extractedKey # <<>>

StartsWith(name, prefix) ==
    Len(name) >= Len(prefix) /\ SubSeq(name, 1, Len(prefix)) = prefix

EndsWith(name, suffix) ==
    /\ Len(name) >= Len(suffix)
    /\ SubSeq(name, Len(name) - Len(suffix) + 1, Len(name)) = suffix

\* The file name of the path lacks the prefix, the extension, or anything
\* between the two.
LacksPart(path) ==
    LET name == file_name(path)
    IN  \/ name.kind = "None"
        \/ ~StartsWith(name.name, INDEX_PREFIX)
        \/ ~EndsWith(name.name, <<46>> \o INDEX_EXTENSION)
        \/ Len(name.name) <= Len(INDEX_PREFIX) + 1 + Len(INDEX_EXTENSION)

NoneForOtherNames ==
    (indexPath # <<>> /\ indexPath.kind = "Ok" /\ extractedKey # <<>>
        /\ LacksPart(indexPath.path))
    => extractedKey.kind = "None"

\* C20 as stated: for every non-empty key without whitespace and every
\* existing directory, key_for_path(path_for_key(k, dir)) is Some(k); and
\* key_for_path is None for a file name lacking the prefix, the extension or
\* a non-empty key.
C20_AsStated ==
    /\ (RoundTripMade /\ indexKey # <<>> /\ NoWhitespace(indexKey))
          => extractedKey = [kind |-> "Some", key |-> indexKey]
    /\ NoneForOtherNames

\* C20: for every non-empty key without whitespace and without the path
\* separator '/', and every existing directory, key_for_path(path_for_key(k,
\* dir)) is Some(k); and key_for_path is None for a path whose file name lacks
\* the subset_ prefix, the .csv extension or a non-empty key.
C20_PathRoundTrip ==
    /\ (RoundTripMade /\ indexKey # <<>> /\ NoWhitespace(indexKey)
            /\ NoSeparator(indexKey))
          => extractedKey = [kind |-> "Some", key |-> indexKey]
    /\ NoneForOtherNames

\* A key holding '.' and '_' went through path_for_key under the directory
\* "/d" and came back from key_for_path.
C20_Witness ==
    /\ RoundTripMade
    /\ indexDir.path = <<47, 100>>
    /\ {46, 95} \subseteq Range(indexKey)
    /\ NoSeparator(indexKey)
    /\ indexPath = [kind |-> "Ok", path |-> <<47, 100, 47>> \o FormatFileName(indexKey)]
    /\ extractedKey = [kind |-> "Some", key |-> indexKey]


(***************************************************************************)
(* Properties of process_chunk (SpecIndex).                                *)
(***************************************************************************)
\* The lines of the chunk so far split off, as the bytes between its
\* newlines (or its ends) lying before position pos.
LinesBefore(chunk, pos) ==
    LET cuts  == {0} \cup {i \in 1..Len(chunk) : chunk[i] = 10} \cup {Len(chunk) + 1}
        start == {c \in cuts : c + 1 < pos}
        n     == Cardinality(start)
        cut(k) == CHOOSE c \in cuts : Cardinality({d \in cuts : d < c}) = k
    IN  [k \in 1..n |-> SubSeq(chunk, cut(k - 1) + 1, cut(k) - 1)]

ShortEnough(line) == Len(line) <= MAX_LINE_LENGTH

\* C21: at every moment of process_chunk the lines handed to
\* IndexCollection::add are, in order, exactly the lines split off so far
\* that are at most MAX_LINE_LENGTH bytes long, whatever the earlier calls of
\* add returned; and once it has returned, every line of the chunk was split
\* off and the result is Ok.
C21_LinesWithinLimitAdded ==
    /\ added = SelectSeq(LinesBefore(processChunk.chunk, processChunk.pos), ShortEnough)
    /\ processChunk.warned + Len(added)
          = Len(LinesBefore(processChunk.chunk, processChunk.pos))
    /\ processChunk.result # None
          => /\ processChunk.result = "Ok"
             /\ LinesBefore(processChunk.chunk, processChunk.pos)
                   = LinesBefore(processChunk.chunk, Len(processChunk.chunk) + 2)

\* process_chunk returned after a line of MAX_LINE_LENGTH + 1 bytes was left
\* out, a call of add failed, and a line of exactly MAX_LINE_LENGTH bytes
\* after both was added.
C21_Witness ==
    /\ processChunk.result = "Ok"
    /\ processChunk.warned = 1
    /\ Len(added) = MaxAdds - 1
    /\ results[1] = "Err"
    /\ added[Len(added)] = LineOfLength(MAX_LINE_LENGTH)
    /\ results[Len(added)] = "Ok"
    /\ \E k \in DOMAIN indices : indices[k].buffer = LineOfLength(MAX_LINE_LENGTH) \o <<10>>


(***************************************************************************)
(* More properties of the directory (Spec).                                *)
(***************************************************************************)
\* Every file of the directory is still there after the step, its earlier
\* content a prefix of the later one.
FilesOnlyGrow ==
    \A k \in DOMAIN disk : k \in DOMAIN disk' /\ IsPrefix(disk[k], disk'[k])

\* The step is a search: find_lines_containing, with the index_files_for it
\* calls and the drop of the reader IndexFiles.
SearchStep == found' # found

\* C22: in every step a shard file only grows by bytes appended to it by the
\* add, flush or drop of a writer IndexFile, every earlier content being a
\* prefix of the later one; a search with find_lines_containing, its
\* index_files_for and the drop of its reader IndexFiles leaves every file of
\* the directory as it was and creates none.
C22_AppendOnlyAndSearchReadOnly ==
    [][/\ FilesOnlyGrow
       /\ SearchStep => disk' = disk]_vars

\* A file that was flushed to twice was searched: the directory holds a file
\* of two lines or more and a search found a line in it.
C22_Witness ==
    /\ \E k \in DOMAIN disk : Len(SplitLines(disk[k])) >= 2
    /\ \E s \in Styles : found[s].state = "returned" /\ found[s].lines # {}
    /\ faults.errors = 0 /\ faults.short = 0


(***************************************************************************)
(* Properties of the FFI (SpecFfi).                                        *)
(***************************************************************************)
\* The arguments for which the doc comment promises a null pointer, and the
\* ones among them that are null.
FfiInvalidArguments ==
    \/ ffi.dir.null
    \/ ~ffi.dir.null /\ ~is_dir(ffi.dir.bytes)
    \/ ffi.query.null
    \/ ffi.search_style.null
    \/ ~ffi.search_style.null /\ SearchStyleOf(ffi.search_style.bytes) = None

FfiNullArguments == {a \in {"dir", "query", "search_style"} : ffi[a].null}

\* C23: whenever dir is null or not a directory, query is null, search_style
\* is null or names none of the three styles, find_lines_in_index_collection
\* returns a null pointer, having dereferenced no null argument and not
\* having searched.
C23_InvalidArgumentsGiveNull ==
    (ffi.outcome # <<>> /\ FfiInvalidArguments)
    => /\ ffi.outcome.returned = "null"
       /\ ~ffi.outcome.searched
       /\ ffi.outcome.dereferenced \cap FfiNullArguments = {}

\* The same for the arguments the function does check: dir null or not a
\* directory, an unknown style behind a non-null pointer, query not null.
C23_CheckedArgumentsGiveNull ==
    (/\ ffi.outcome # <<>>
     /\ FfiInvalidArguments
     /\ ffi.dir.null \/ ~is_dir(ffi.dir.bytes) \/ (~ffi.query.null /\ ~ffi.search_style.null))
    => /\ ffi.outcome.returned = "null"
       /\ ~ffi.outcome.searched
       /\ ffi.outcome.dereferenced \cap FfiNullArguments = {}


(***************************************************************************)
(* Properties of the locks of IndexCollection::add (Spec).                 *)
(***************************************************************************)
\* Worker t is inside add at a key whose IndexFile is in the map already,
\* about to call assert_index_exists.
AtExistingShard(t) ==
    /\ th[t].pc = "assert"
    /\ th[t].key \in DOMAIN indices

\* Another worker holds the map's read lock, inside IndexFile::add for
\* another key.
OtherKeyBeingWritten(t) ==
    \E u \in readers : u # t /\ th[u].key # th[t].key

\* C24: a worker adding to a key whose shard exists never needs the map's
\* write lock, so it can go on while another worker holds the read lock for
\* a different key.
C24_ExistingShardNeedsNoWriteLock ==
    \A t \in DOMAIN th :
        (AtExistingShard(t) /\ OtherKeyBeingWritten(t)) => ENABLED AssertIndexExists(t)

\* What the code does instead: whenever a worker passes assert_index_exists,
\* shard existing or not, no read lock is held, the write lock being taken.
C24_AssertTakesWriteLock ==
    [][\A t \in DOMAIN th :
          (th[t].pc = "assert" /\ th'[t] # th[t]) => readers = {}]_vars


(***************************************************************************)
(* Properties of IndexCollection::find_lines_containing (SpecFind).        *)
(***************************************************************************)
\* The shards search i went through, and the lines shard k holds for it.
ShardsOf(i) == Flatten(searches[i].chunks)

LinesOfShard(k, i) ==
    OkLines(LinesScanner(disk[k], searches[i].query, searches[i].style))

Computed(i) == ~searches[i].hit /\ searches[i].state = "returned"

\* C25: a search that was computed holds every line found in each shard that
\* could be scanned, whether or not another shard failed.
C25_ShardFailuresAreIndependent ==
    \A i \in 1..Len(searches) :
        Computed(i) =>
            \A k \in Range(ShardsOf(i)) \ unreadable :
                LinesOfShard(k, i) \subseteq searches[i].lines

\* The same when every chunk holds one shard, as with max_num_threads = 1.
C25_WithChunksOfOneShard ==
    \A i \in 1..Len(searches) :
        (Computed(i) /\ \A j \in 1..Len(searches[i].chunks) : Len(searches[i].chunks[j]) = 1)
        => \A k \in Range(ShardsOf(i)) \ unreadable :
                LinesOfShard(k, i) \subseteq searches[i].lines

C26_ChunksPartitionTheShards ==
    \A i \in 1..Len(searches) :
        Computed(i) =>
            LET files == index_files_for(disk, searches[i].query)
            IN  /\ ShardsOf(i) = files
                /\ \A j \in 1..Len(searches[i].chunks) :
                      /\ searches[i].chunks[j] # <<>>
                      /\ Len(searches[i].chunks[j]) <= Min(Len(files), max_num_threads)

\* C27: with the cache, a search for q under a style made right after a
\* search for q under another style is a miss and returns what the
\* directory holds for q under its own style.
C27_OtherStyleIsCacheMiss ==
    lru =>
        \A i \in 2..Len(searches) :
            (/\ searches[i - 1].query = searches[i].query
             /\ searches[i - 1].style # searches[i].style
             /\ searches[i - 1].state = "returned")
            => /\ ~searches[i].hit
               /\ searches[i].lines =
                     find_lines_containing_uncached(disk, unreadable, max_num_threads,
                         searches[i].query, searches[i].style).lines

\* Without the cache every search returns what the directory holds for its
\* query under its style.
C27_WithoutCache ==
    ~lru =>
        \A i \in 1..Len(searches) :
            /\ ~searches[i].hit
            /\ searches[i].lines =
                  find_lines_containing_uncached(disk, unreadable, max_num_threads,
                      searches[i].query, searches[i].style).lines


(***************************************************************************)
(* Properties of one IndexFile (SpecFile).                                 *)
(***************************************************************************)
\* The step is a call of dispose, and what it returned.
DisposeStep ==
    /\ Len(fileOps') = Len(fileOps) + 1
    /\ fileOps'[Len(fileOps')].op = "dispose"

DisposeResult == fileOps'[Len(fileOps')].result

\* C28: dispose removes the shard file when it exists (fs::remove_file not
\* failing) and returns Ok, returns Ok and changes nothing when the file does
\* not exist, and in every case leaves the buffer and the seen-set as they
\* were.
C28_DisposeRemovesFileOnly ==
    [][DisposeStep =>
         /\ indices' = indices
         /\ (FileKey \notin DOMAIN disk) => (DisposeResult = "Ok" /\ disk' = disk)
         /\ (FileKey \in DOMAIN disk /\ faults' = faults)
               => (DisposeResult = "Ok" /\ disk' = Remove(disk, FileKey))
         /\ DisposeResult = "Ok" => FileKey \notin DOMAIN disk']_vars

\* dispose was called on a flushed file while lines were still buffered and
\* seen, and once more when the file was gone.
C28_Witness ==
    /\ Len(fileOps) >= 3
    /\ fileOps[Len(fileOps)] = FileOp("dispose", <<>>, "Ok")
    /\ fileOps[Len(fileOps) - 1] = FileOp("dispose", <<>>, "Ok")
    /\ \E i \in 1..Len(fileOps) : fileOps[i].op = "add" /\ fileOps[i].result = "true"
    /\ indices[FileKey].buffer # <<>>
    /\ dedup => indices[FileKey].seen # {}
    /\ FileKey \notin DOMAIN disk

\* C29 as stated: after any sequence of add and flush calls the buffer holds
\* at most MAX_BUFFER bytes.
C29_AsStated ==
    Len(indices[FileKey].buffer) <= MAX_BUFFER

\* Every item handed to add so far leaves room for its newline.
ItemsFitBuffer ==
    \A i \in 1..Len(fileOps) :
        fileOps[i].op = "add" => Len(fileOps[i].item) + 1 <= MAX_BUFFER

\* C29: after any sequence of add and flush calls whose items are each at
\* most MAX_BUFFER - 1 bytes long, the buffer holds at most MAX_BUFFER bytes.
C29_BufferWithinMaxBuffer ==
    ItemsFitBuffer => Len(indices[FileKey].buffer) <= MAX_BUFFER

\* The buffer is full to the last byte after an add that had to flush.
C29_Witness ==
    /\ ItemsFitBuffer
    /\ Len(indices[FileKey].buffer) = MAX_BUFFER
    /\ FileKey \in DOMAIN disk /\ disk[FileKey] # <<>>
    /\ fileOps[Len(fileOps)].op = "add"
    /\ \A i \in 1..Len(fileOps) : fileOps[i].op # "flush"

(***************************************************************************)
(* More properties of the line scanner (SpecSearch).                       *)
(***************************************************************************)
\* The ranges collected when the scanner of the scanned file was made.
RangesOf(s) == LinesScannerNew(disk[scanned[s].key], query, s)

\* The line of file that holds the byte at offset at, without its newline.
LineContaining(file, at) ==
    LET before == {i \in 1..at : file[i] = 10}
        from   == IF before = {} THEN 0 ELSE CHOOSE i \in before : \A j \in before : j <= i
        after  == {i \in (at + 1)..Len(file) : file[i] = 10}
        to     == IF after = {} THEN Len(file)
                  ELSE (CHOOSE i \in after : \A j \in after : i <= j) - 1
    IN  Slice(file, from, to)

\* The styles whose transformed stream is as long as the file.
LengthPreserving == {"Strict", "CaseInsensitive"}

OneItemPerRange(s) == Len(scanned[s].items) = Len(RangesOf(s))

RangesInOrder(s) ==
    \A i \in 1..(Len(RangesOf(s)) - 1) : RangesOf(s)[i].start < RangesOf(s)[i + 1].start

\* The item of every range is the line of the file that holds the first byte
\* of the range, as made of it by strip.
ItemsAreLines(s, strip(_)) ==
    \A i \in 1..Len(RangesOf(s)) :
        scanned[s].items[i] =
            [kind |-> "Ok",
             line |-> strip(LineContaining(disk[scanned[s].key], RangesOf(s)[i].start))]

WithoutNewline(line) == line

\* C30 to the letter: the item is the line without its newline and with
\* whatever white space ends it.
C30_AsStated ==
    \A s \in Styles :
        scanned[s].state = "done" =>
            /\ OneItemPerRange(s)
            /\ RangesInOrder(s)
            /\ (s \in LengthPreserving /\ LinesWithinLimit) => ItemsAreLines(s, WithoutNewline)

\* C30: a scanner yields one item for each range collected at construction,
\* in the order of the ranges; over a file whose lines are at most
\* MAX_LINE_LENGTH bytes and under a length-preserving style, the item of
\* the match [s, e) is the whole line of the file that holds byte s, without
\* its newline.  Lines are compared without their trailing white space,
\* which line_of_range strips from what it yields.
C30_ItemIsLineOfTheMatch ==
    \A s \in Styles :
        scanned[s].state = "done" =>
            /\ OneItemPerRange(s)
            /\ RangesInOrder(s)
            /\ (s \in LengthPreserving /\ LinesWithinLimit) => ItemsAreLines(s, Trimmed)

\* The same over ASCII files, where the seek cannot land inside a character.
C30_OnAsciiFiles ==
    \A s \in Styles :
        scanned[s].state = "done" =>
            /\ OneItemPerRange(s)
            /\ RangesInOrder(s)
            /\ (/\ s \in LengthPreserving
                /\ LinesWithinLimit
                /\ IsAscii(disk[scanned[s].key])) => ItemsAreLines(s, Trimmed)


(***************************************************************************)
(* Properties of the transformed reader (SpecStream).                      *)
(***************************************************************************)
\* Read i returned as many bytes as the file handed out.
LengthKept(i) ==
    /\ ~stream.reads[i].panicked
    /\ stream.reads[i].returned = Len(stream.reads[i].inner_buf)

\* The offset the transformed stream has come to after read i, and the one
\* the file has come to.
RECURSIVE StreamOffset(_)
StreamOffset(i) == IF i = 0 THEN 0 ELSE StreamOffset(i - 1) + stream.reads[i].returned

RECURSIVE FileOffset(_)
FileOffset(i) == IF i = 0 THEN 0 ELSE FileOffset(i - 1) + Len(stream.reads[i].inner_buf)

\* C31: every read through the transformed reader returns as many bytes as
\* the read of the file handed out, under Strict and CaseInsensitive
\* whatever the bytes, and under Fuzzy when the bytes are ASCII; the offsets
\* in the transformed stream are then those in the file.
C31_TransformPreservesLength ==
    (/\ stream # <<>>
     /\ \/ stream.style \in {"Strict", "CaseInsensitive"}
        \/ \A i \in 1..Len(stream.reads) : IsAscii(stream.reads[i].inner_buf)) =>
        \A i \in 1..Len(stream.reads) :
            /\ LengthKept(i)
            /\ StreamOffset(i) = FileOffset(i)

\* A Fuzzy reader that has read P, $ and l in three reads and come to the
\* end of the file.
C31_Witness ==
    /\ stream # <<>>
    /\ stream.style = "Fuzzy"
    /\ Len(stream.reads) = 4
    /\ {stream.reads[i].inner_buf : i \in 1..3} = {<<80>>, <<36>>, <<108>>}
    /\ {stream.reads[i].buf : i \in 1..3} = {<<112>>, <<115>>, <<105>>}
    /\ stream.reads[4].returned = 0

\* The same of every read under Fuzzy, ASCII or not.
C31_FuzzyOnAnyBytes ==
    stream # <<>> => \A i \in 1..Len(stream.reads) : LengthKept(i)


(***************************************************************************)
(* Properties of the destruction of the collection (Spec).                 *)
(***************************************************************************)
\* C32: a shard whose post-processing fails while the collection is dropped
\* does not make the drop panic: the destruction of the collection always
\* ends by returning.
C32_DropFailureIsContained == alive # "panicked"

\* The drop returns when the file system has refused nothing.
C32_DropReturnsWithoutError ==
    (alive = "panicked") => faults.errors > 0


(***************************************************************************)
(* Properties of the iterator over the chunks (SpecIter).                  *)
(***************************************************************************)
\* The last call of take_until, which the last next made.
LastTaken == taken[Len(taken)]

\* bs is a whole number of lines: empty, or ended by the separator.
WholeLines(bs) == bs = <<>> \/ bs[Len(bs)] = SEP

\* C33: the Vec that next yields holds the bytes take_until reported as
\* read for the chunk and nothing after them, and next returns None when
\* take_until returns 0.
C33_YieldsTheBytesRead ==
    /\ yielded.kind = "Some" => (LastTaken.n > 0 /\ yielded.vec = LastTaken.bytes)
    /\ yielded.kind = "None" => LastTaken.n = 0

\* What holds of the Vec: it is chunk_size long and starts with the bytes
\* take_until read; next returns None exactly when take_until returns 0.
C33_YieldsTheWholeBuffer ==
    /\ yielded.kind = "Some" =>
          /\ LastTaken.n > 0
          /\ Len(yielded.vec) = fixedMemoryReader.chunk_size
          /\ SubSeq(yielded.vec, 1, LastTaken.n) = LastTaken.bytes
    /\ yielded.kind = "None" => (LastTaken.kind = "Ok" /\ LastTaken.n = 0)


(***************************************************************************)
(* More properties of one IndexFile (SpecFile).                            *)
(***************************************************************************)
NoEmptyShardFile == \A k \in DOMAIN disk : disk[k] # <<>>

AddErrStep ==
    /\ Len(fileOps') = Len(fileOps) + 1
    /\ fileOps'[Len(fileOps')].op = "add"
    /\ fileOps'[Len(fileOps')].result = "Err"

FileOnDisk(d) == IF FileKey \in DOMAIN d THEN d[FileKey] ELSE <<>>

\* C35: an add that returns an error leaves the IndexFile as it was: the
\* line is not recorded in the seen-set, and what was buffered is still
\* buffered, or has been appended to the file.
C35_FailedAddLeavesFileAsBefore ==
    [][AddErrStep =>
          /\ indices'[FileKey].seen = indices[FileKey].seen
          /\ \/ /\ indices'[FileKey].buffer = indices[FileKey].buffer
                /\ FileOnDisk(disk') = FileOnDisk(disk)
             \/ /\ indices'[FileKey].buffer = <<>>
                /\ FileOnDisk(disk') = FileOnDisk(disk) \o indices[FileKey].buffer]_vars

\* The same without deduplicate and of the seen-set only: nothing is
\* recorded when the crate keeps no seen-set.
C35_SeenSetWithoutDedup ==
    [][(AddErrStep /\ ~dedup) => indices'[FileKey].seen = indices[FileKey].seen]_vars

\* What a failed add leaves of the buffer: all of it when the file could
\* not be opened, nothing when the write failed.
C35_BufferKeptOrLost ==
    [][AddErrStep =>
          /\ FileOnDisk(disk') = FileOnDisk(disk)
          /\ indices'[FileKey].buffer \in {indices[FileKey].buffer, <<>>}]_vars


(***************************************************************************)
(* Properties of the locks of concurrent calls of add (SpecFair).          *)
(***************************************************************************)
\* The threads inside a call of IndexCollection::add.
Adding == {t \in DOMAIN th : th[t].pc # "idle"}

\* Call c of add has been made and has not returned.
Running(c) == c \in DOMAIN results /\ results[c] = None

\* While a thread is inside add, some thread inside add can take its next
\* step: no set of threads waits for one another.
NoDeadlock == Adding # {} => \E t \in Adding : ENABLED AddStep(t)

\* C36: the threads that call add on one collection never deadlock, and
\* under fair scheduling every call of add returns.
C36_AddNeverDeadlocks ==
    /\ []NoDeadlock
    /\ \A c \in 1..MaxAdds : Running(c) ~> ~Running(c)

\* Two calls overlap: one thread holds the read lock of the map inside
\* IndexFile::add while the other waits for the write lock.
C36_Witness ==
    /\ Cardinality(Adding) = 2
    /\ \E t, u \in Adding :
          /\ th[t].pc = "buffer" /\ t \in readers
          /\ th[u].pc = "assert"
          /\ ~ENABLED AssertIndexExists(u)


(***************************************************************************)
(* More properties of the reader (SpecReader).                             *)
(***************************************************************************)
\* No call of take_until has panicked, and if the last one returned 0 the
\* reader has nothing left: no unread input and nothing carried over.
ZeroOnlyWhenExhausted ==
    /\ \A i \in 1..Len(taken) : taken[i].kind # "Panic"
    /\ (taken # <<>> /\ taken[Len(taken)].kind = "Ok" /\ taken[Len(taken)].n = 0)
          => Exhausted

\* C37: with 0 < ML <= chunk_size and a buffer of chunk_size bytes,
\* take_until returns 0 only when the input is exhausted and nothing is
\* carried over, and the copy of the carried bytes never fails.
C37_ZeroOnlyWhenExhausted ==
    (0 < ML /\ ML <= fixedMemoryReader.chunk_size) => ZeroOnlyWhenExhausted

\* The same when the lines of the input are at most ML bytes and chunk_size
\* is at least twice ML.
C37_WithRoomForACarriedLine ==
    (SentencesFit /\ 0 < ML /\ 2 * ML <= fixedMemoryReader.chunk_size)
        => ZeroOnlyWhenExhausted

(***************************************************************************)
(* Termination and errors of line_of_range (SpecSearch).                   *)
(***************************************************************************)
\* No item of the scan under style s is a line_of_range whose loop goes on
\* calling read_line at the end of the file.
Terminates(s) == \A i \in 1..Len(scanned[s].items) : scanned[s].items[i].kind # "Hang"

\* C38: LinesScanner::next always terminates: for every range collected at
\* construction, under each of the three styles, line_of_range makes
\* finitely many calls of read_line and then returns a line or an error.
C38_LineOfRangeTerminates ==
    \A s \in Styles : scanned[s].state = "done" => Terminates(s)

\* Under the styles whose stream is as long as the file every range ends
\* within the file, and the loop ends.
C38_LengthPreservingTerminates ==
    \A s \in LengthPreserving : scanned[s].state = "done" => Terminates(s)

\* Over ASCII files the loop ends under every style.
C38_OnAsciiFiles ==
    \A s \in Styles :
        (scanned[s].state = "done" /\ IsAscii(disk[scanned[s].key])) => Terminates(s)

\* Every line of the shard is valid UTF-8.
LinesAreUtf8 == \A i \in 1..Len(ShardLines) : IsUtf8(ShardLines[i])

\* Every item of the scan under style s is Ok(line).
NeverFails(s) == \A i \in 1..Len(scanned[s].items) : scanned[s].items[i].kind = "Ok"

\* C39: over a shard whose lines are valid UTF-8 of at most MAX_LINE_LENGTH
\* bytes, lines with multi-byte characters included, the Strict scan never
\* fails: every range yields Ok(line), wherever the seek position
\* start - MAX_LINE_LENGTH falls in the file.
C39_StrictNeverFails ==
    (scanned["Strict"].state = "done" /\ LinesWithinLimit /\ LinesAreUtf8)
        => NeverFails("Strict")

\* The same over ASCII lines, where every offset starts a character.
C39_OnAsciiFiles ==
    (/\ scanned["Strict"].state = "done"
     /\ LinesWithinLimit
     /\ IsAscii(disk[scanned["Strict"].key])) => NeverFails("Strict")

(***************************************************************************)
(* A line added and then searched for by one of its prefixes (Spec).       *)
(***************************************************************************)
\* The calls of add the statement is about: the line is ASCII, at most
\* MAX_LINE_LENGTH bytes, has no trailing white space, and the query of the
\* search is a prefix of it whose normalised item has at least INDEX_LENGTH
\* characters.
FoundByPrefix ==
    {i \in 1..Len(added) :
        /\ IsAscii(added[i])
        /\ Len(added[i]) <= MAX_LINE_LENGTH
        /\ Trimmed(added[i]) = added[i]
        /\ IsPrefix(query, added[i])
        /\ Len(Cleaned(query)) >= INDEX_LENGTH}

\* Once the collection is gone without an I/O error, the Strict search
\* returns every such line.
PrefixSearchFindsLine ==
    (alive = "dropped" /\ NoIoError /\ found["Strict"].state # "none") =>
        \A i \in FoundByPrefix : added[i] \in found["Strict"].lines

\* The first key of the query is the first key of every such line.
FirstKeysAgree ==
    found["Strict"].state # "none" =>
        \A i \in FoundByPrefix :
            Head(indices_of(INDEX_LENGTH, INDEX_DEPTH, query))
                = Head(indices_of(INDEX_LENGTH, INDEX_DEPTH, added[i]))

\* C40: if an ASCII line s of at most MAX_LINE_LENGTH bytes, without
\* trailing white space, was added through IndexCollection::add and flushed
\* (every write took the whole buffer), and q is a prefix of s whose
\* normalised item has at least INDEX_LENGTH characters, then
\* find_lines_containing(q, Strict) over the same directory contains s.
C40_PrefixSearchFindsLine == faults.short = 0 => PrefixSearchFindsLine

\* The same when every line added to the collection is ASCII.
C40_AmongAsciiLines ==
    (faults.short = 0 /\ \A i \in 1..Len(added) : IsAscii(added[i]))
        => PrefixSearchFindsLine

\* Index-time and query-time key derivation agree on the first key.
C40_FirstKeysAgree == FirstKeysAgree

====
